---- MODULE Spec2Model ----
(***************************************************************************)
(* The simulation core of physics-web: the Engine's fixed-timestep clock   *)
(* (src/core/Engine.ts), driven by the host's animation-frame queue and by *)
(* the control panel's handlers, with a ProjectileMotionScene loaded.      *)
(*                                                                         *)
(* Time is counted in units of 1/120 s, so that fixedDeltaTime (1/60 s) is *)
(* 2 units and the 0.25 s clamp of Engine.loop is 30 units.  Arithmetic is *)
(* exact (integers); floating-point rounding is not modelled.              *)
(***************************************************************************)
EXTENDS Integers, Sequences, FiniteSets, TLC

\* ------------------------------------------------------------------ bounds

\* The host clock (performance.now()) stops advancing at MaxNow.
MaxNow == 36
\* At most MaxPending loop callbacks are queued with requestAnimationFrame.
MaxPending == 2
\* A frame's timestamp is at most MaxLag units older than performance.now().
MaxLag == 1
\* A module exercised on its own is taken through at most MaxSteps operations.
MaxSteps == 2
\* The largest finite number.
MaxFinite == 46000
\* The largest denominator of a ball's coordinates from which the elastic
\* collision is stepped on: the numbers before the first response.
MaxDenominator == 100
\* A spring is stepped EnergySteps times.
EnergySteps == 1000
\* A chart is given at most MaxPushes points.
MaxPushes == 5

\* ------------------------------------------------------- program constants

\* Engine.ts:61  this.fixedDeltaTime = 1 / 60
fixedDeltaTime == 2
\* Engine.ts:216 if (dt > 0.25) dt = 0.25
maxFrameDelta == 30
\* ProjectileMotionScene.ts:323  a trail sample every 0.05 s
trailInterval == 6
\* ProjectileMotionScene.ts:72   mass: 1.0
ballMass == 1
\* DoublePendulumScene.ts:271   const steps = 4
steps == 4
\* DoublePendulumScene.ts:55    trailLength: 500
trailLength == 500
\* DoublePendulumScene.ts:285   a trail sample when more than 0.02 s apart:
\* 4.8 units of 1/240 s, so more than 4 whole units
doublePendulumTrailInterval == 4

NoScene == [kind |-> "none"]

\* The wall-clock advances the host can make between two events: a frame and a
\* half, and one fixed step more than the clamp (a backgrounded tab).
Jumps == {fixedDeltaTime + 1, maxFrameDelta + fixedDeltaTime}

\* Launch settings reachable from the v0 / theta / h sliders (resetOnChange),
\* as height h, horizontal and vertical launch velocity, in integer units:
\* theta = 0 and h = 0 are slider minima (ProjectileMotionScene.ts:152,162).
Launches ==
    { [h |-> 8, vx0 |-> 1, vy0 |-> 0],
      [h |-> 0, vx0 |-> 1, vy0 |-> 0] }

\* The parameters a new ProjectileMotionScene is constructed with.
DefaultParams == [h |-> 8, vx0 |-> 1, vy0 |-> 0, g |-> 1, k |-> 0, showTrail |-> TRUE]

VARIABLES
    \* Engine fields.  startTime, pauseStartTime and totalPausedTime are left
    \* out: start, pause and resetTime write them and nothing in the repository
    \* reads them (pauseStartTime only to update the other two).
    currentScene, running, lastFrameTime, accumulatedTime, physicsTime,
    \* host: performance.now(), the animation-frame queue (callbacks queued for
    \* the next frame, callbacks of the running frame still due, its timestamp)
    now, pending, due, frameTime,
    \* what the last operation did: the scene updates it invoked, the alpha it
    \* handed to the renderer, in time units (alpha * fixedDeltaTime; the empty
    \* sequence when it did not render), whether an update's error escaped
    calls, alpha, uncaught,
    \* the alpha the scene's render blended with in the last operation, in the
    \* same units (the empty sequence when it did not render)
    rendered,
    \* history since the last resetTime: fixed steps completed by the loop, the
    \* sum of the raw frame deltas, whether a delta was clamped, and whether a
    \* loop update has thrown
    stepsDone, delivered, clamped, failed,
    \* the object a specification of one module exercises on its own (an
    \* integrator state, a scene's physical state), the simulation time it has
    \* reached, the number of operations applied to it, and a record of the
    \* last operation (its inputs and what it called)
    state, simTime, nsteps, last

vars == << currentScene, running, lastFrameTime, accumulatedTime,
           physicsTime, now, pending, due, frameTime, calls, alpha, uncaught,
           rendered, stepsDone, delivered, clamped, failed,
           state, simTime, nsteps, last >>

engineVars == << currentScene, running, lastFrameTime, accumulatedTime,
                 physicsTime, now, pending, due, frameTime, calls, alpha,
                 uncaught, rendered, stepsDone, delivered, clamped, failed >>

Abs(x) == IF x < 0 THEN -x ELSE x

\* F applied to the value of x (x is evaluated once, before F).
WithValue(x, F(_)) == CHOOSE r \in { F(y) : y \in {x} } : TRUE

\* ------------------------------------------------- ProjectileMotionScene

\* ProjectileMotionScene.constructor: default parameters, ball at rest.
NewScene ==
    [kind |-> "projectile", params |-> DefaultParams,
     pos |-> [x |-> 0, y |-> 0], vel |-> [x |-> 0, y |-> 0],
     acc |-> [x |-> 0, y |-> 0],
     trail |-> << >>, time |-> 0, isLanded |-> FALSE]

\* ProjectileMotionScene.resetSimulation
resetSimulation(s) ==
    [s EXCEPT !.pos = [x |-> 0, y |-> s.params.h],
              !.vel = [x |-> s.params.vx0, y |-> s.params.vy0],
              !.acc = [x |-> 0, y |-> -s.params.g],
              !.trail = << >>,
              !.time = 0,
              !.isLanded = FALSE]

\* ProjectileMotionScene.setup
setup(s) == resetSimulation(s)

\* ProjectileMotionScene.update(dt, t) where the landing keeps the ball's
\* velocity.
updateLandsMoving(s, dt, t) ==
    IF s.isLanded THEN [scene |-> s, threw |-> FALSE]
    ELSE
      LET ax == (-s.params.k * s.vel.x) \div ballMass
          ay == (-ballMass * s.params.g - s.params.k * s.vel.y) \div ballMass
          vx == s.vel.x + ax * dt
          vy == s.vel.y + ay * dt
          px == s.pos.x + vx * dt
          py == s.pos.y + vy * dt
          landed == py <= 0
      IN [scene |-> [s EXCEPT !.acc = [x |-> ax, y |-> ay],
                              !.vel = [x |-> vx, y |-> vy],
                              !.pos = [x |-> px,
                                       y |-> IF landed THEN 0 ELSE py],
                              !.isLanded = landed,
                              !.time = s.time + dt],
          threw |-> FALSE]

\* ProjectileMotionScene.update(dt, t): the scene after the call and whether
\* the call threw (reading .y of the last trail point of an empty trail).
update(s, dt, t) ==
    IF s.isLanded THEN [scene |-> s, threw |-> FALSE]
    ELSE
      LET fx == -s.params.k * s.vel.x
          fy == -ballMass * s.params.g - s.params.k * s.vel.y
          ax == fx \div ballMass
          ay == fy \div ballMass
          vx == s.vel.x + ax * dt
          vy == s.vel.y + ay * dt
          px == s.pos.x + vx * dt
          py == s.pos.y + vy * dt
          landed == py <= 0
          pos1 == IF landed THEN [x |-> px, y |-> 0] ELSE [x |-> px, y |-> py]
          vel1 == IF landed THEN [x |-> 0, y |-> 0] ELSE [x |-> vx, y |-> vy]
          s1 == [s EXCEPT !.acc = [x |-> ax, y |-> ay], !.vel = vel1,
                          !.pos = pos1, !.isLanded = landed,
                          !.time = s.time + dt]
          n == Len(s.trail)
      IN IF s.params.showTrail /\ ~landed
         THEN IF n = 0 \/ Abs(s.trail[n].t - t) > trailInterval
              THEN [scene |-> [s1 EXCEPT !.trail =
                                  Append(@, [x |-> pos1.x, y |-> pos1.y, t |-> t])],
                    threw |-> FALSE]
              ELSE [scene |-> s1, threw |-> FALSE]
         ELSE IF landed
              THEN IF n = 0 THEN [scene |-> s1, threw |-> TRUE]
                   ELSE IF s.trail[n].y # 0
                        THEN [scene |-> [s1 EXCEPT !.trail =
                                  Append(@, [x |-> pos1.x, y |-> 0, t |-> t])],
                              threw |-> FALSE]
                        ELSE [scene |-> s1, threw |-> FALSE]
              ELSE [scene |-> s1, threw |-> FALSE]

\* ------------------------------------------------------------------ Scene

\* Scene.render(ctx, alpha = 1.0): the weight the scene blends its previous
\* and current state with (SimplePendulumScene.render: prev * (1 - alpha) +
\* current * alpha), in time units.
render(s, renderAlpha) == << renderAlpha >>

\* Scene.renderWithRenderer(renderer, alpha): this.render(ctx), so render's
\* alpha takes its default 1.0 (one fixed step, in time units).
renderWithRenderer(s, a) == render(s, fixedDeltaTime)

\* ----------------------------------------------------------------- Engine

\* The engine's fields, the host's queue and the history, as one value the
\* methods below transform.
Eng ==
    [currentScene |-> currentScene, running |-> running,
     lastFrameTime |-> lastFrameTime, accumulatedTime |-> accumulatedTime,
     physicsTime |-> physicsTime,
     pending |-> pending, calls |-> << >>, alpha |-> << >>,
     rendered |-> << >>,
     uncaught |-> FALSE, stepsDone |-> stepsDone, delivered |-> delivered,
     clamped |-> clamped, failed |-> failed]

Becomes(e) ==
    /\ currentScene' = e.currentScene
    /\ running' = e.running
    /\ lastFrameTime' = e.lastFrameTime
    /\ accumulatedTime' = e.accumulatedTime
    /\ physicsTime' = e.physicsTime
    /\ pending' = e.pending
    /\ calls' = e.calls
    /\ alpha' = e.alpha
    /\ rendered' = e.rendered
    /\ uncaught' = e.uncaught
    /\ stepsDone' = e.stepsDone
    /\ delivered' = e.delivered
    /\ clamped' = e.clamped
    /\ failed' = e.failed
    /\ UNCHANGED << state, simTime, nsteps, last >>

\* Engine.start without the assignment lastFrameTime = performance.now().
startKeepsLastFrameTime(e, t) ==
    IF ~e.running
    THEN [e EXCEPT !.running = TRUE, !.pending = @ + 1]
    ELSE e

\* Engine.start; t is performance.now().
start(e, t) ==
    IF ~e.running
    THEN [e EXCEPT !.running = TRUE, !.lastFrameTime = t, !.pending = @ + 1]
    ELSE e

\* Engine.pause
pause(e, t) ==
    IF e.running
    THEN [e EXCEPT !.running = FALSE]
    ELSE e

\* Engine.toggle
toggle(e, t) == IF e.running THEN pause(e, t) ELSE start(e, t)

\* Engine.resetTime without the assignment physicsTime = 0.
resetTimeKeepsPhysicsTime(e, t) ==
    [e EXCEPT !.lastFrameTime = t, !.accumulatedTime = 0,
              !.stepsDone = 0, !.delivered = 0, !.clamped = FALSE,
              !.failed = FALSE]

\* Engine.resetTime
resetTime(e, t) ==
    [e EXCEPT !.lastFrameTime = t, !.accumulatedTime = 0, !.physicsTime = 0,
              !.stepsDone = 0, !.delivered = 0, !.clamped = FALSE,
              !.failed = FALSE]

\* Engine.loadScene: tear down, install, setup, resetTime.
loadScene(e, sceneInstance, t) ==
    resetTime([e EXCEPT !.currentScene = setup(sceneInstance)], t)

\* One call of the scene's update made by `by`, as the history records it.
Call(by, dt, t, threw) == [by |-> by, dt |-> dt, t |-> t, threw |-> threw]

\* The while loop of Engine.loop with the clock advanced before the update.
RECURSIVE drainAdvancesFirst(_)
drainAdvancesFirst(e) ==
    IF e.accumulatedTime >= fixedDeltaTime
    THEN LET t1 == e.physicsTime + fixedDeltaTime
             r == update(e.currentScene, fixedDeltaTime, t1)
             e1 == [e EXCEPT !.currentScene = r.scene,
                             !.physicsTime = t1,
                             !.calls = Append(@, Call("loop", fixedDeltaTime,
                                                      t1, r.threw))]
         IN IF r.threw
            THEN [e1 EXCEPT !.uncaught = TRUE, !.failed = TRUE]
            ELSE drainAdvancesFirst([e1 EXCEPT
                                  !.accumulatedTime = @ - fixedDeltaTime,
                                  !.stepsDone = @ + 1])
    ELSE e

\* The while loop of Engine.loop: update, then advance the clock.  An update
\* that throws leaves the loop before either assignment.
RECURSIVE drain(_)
drain(e) ==
    IF e.accumulatedTime >= fixedDeltaTime
    THEN LET r == update(e.currentScene, fixedDeltaTime, e.physicsTime)
             e1 == [e EXCEPT !.currentScene = r.scene,
                             !.calls = Append(@, Call("loop", fixedDeltaTime,
                                                      e.physicsTime, r.threw))]
         IN IF r.threw
            THEN [e1 EXCEPT !.uncaught = TRUE, !.failed = TRUE]
            ELSE drain([e1 EXCEPT !.physicsTime = @ + fixedDeltaTime,
                                  !.accumulatedTime = @ - fixedDeltaTime,
                                  !.stepsDone = @ + 1])
    ELSE e

\* The frame delta clamped to one fixed step instead of 0.25 s.
frameDeltaClampedToStep(e, timestamp) ==
    LET dt == timestamp - e.lastFrameTime
    IN IF dt > fixedDeltaTime THEN fixedDeltaTime ELSE dt

\* The frame delta Engine.loop adds to the accumulator.
frameDelta(e, timestamp) ==
    LET dt == timestamp - e.lastFrameTime
    IN IF dt > maxFrameDelta THEN maxFrameDelta ELSE dt

\* Engine.loop without the early return when the engine is not running.
loopIgnoresRunning(e, timestamp) ==
    LET dt == frameDelta(e, timestamp)
        e1 == [e EXCEPT !.lastFrameTime = timestamp,
                        !.accumulatedTime = @ + dt,
                        !.delivered = @ + (timestamp - e.lastFrameTime),
                        !.clamped = @ \/ (timestamp - e.lastFrameTime > maxFrameDelta)]
    IN IF e1.currentScene # NoScene
       THEN LET e2 == drain(e1)
            IN IF e2.uncaught THEN e2
               ELSE [e2 EXCEPT !.alpha = << e2.accumulatedTime >>,
                               !.rendered = renderWithRenderer(
                                   e2.currentScene, e2.accumulatedTime),
                               !.pending = @ + 1]
       ELSE [e1 EXCEPT !.pending = @ + 1]

\* Engine.loop(timestamp), for a callback the host runs.
loop(e, timestamp) ==
    IF ~e.running THEN e
    ELSE
      LET dt == frameDelta(e, timestamp)
          e1 == [e EXCEPT !.lastFrameTime = timestamp,
                          !.accumulatedTime = @ + dt,
                          !.delivered = @ + (timestamp - e.lastFrameTime),
                          !.clamped = @ \/ (timestamp - e.lastFrameTime > maxFrameDelta)]
      IN IF e1.currentScene # NoScene
         THEN LET e2 == drain(e1)
              IN IF e2.uncaught THEN e2
                 ELSE [e2 EXCEPT !.alpha = << e2.accumulatedTime >>,
                                 !.rendered = renderWithRenderer(
                                     e2.currentScene, e2.accumulatedTime),
                                 !.pending = @ + 1]
         ELSE [e1 EXCEPT !.pending = @ + 1]

\* ControlPanel.addEngineControls, resetBtn.onclick
resetBtnClick(e, t) ==
    LET e1 == resetTime(e, t)
        e2 == IF e1.currentScene # NoScene
              THEN [e1 EXCEPT !.currentScene = resetSimulation(@)]
              ELSE e1
    IN IF ~e2.running /\ e2.currentScene # NoScene
       THEN LET r == update(e2.currentScene, 0, 0)
            IN [e2 EXCEPT !.currentScene = r.scene,
                          !.calls = Append(@, Call("resetBtn", 0, 0, r.threw)),
                          !.uncaught = r.threw]
       ELSE e2

\* main.ts, controlPanel.on('request-reset'): a slider with resetOnChange has
\* written the launch setting into scene.params.
requestReset(e, launch, t) ==
    LET s == [e.currentScene EXCEPT !.params.h = launch.h,
                                    !.params.vx0 = launch.vx0,
                                    !.params.vy0 = launch.vy0]
    IN resetTime([e EXCEPT !.currentScene = resetSimulation(s)], t)

\* ControlPanel.recordGif / recordCanvas: reset, then make sure the loop runs.
recordStart(e, t) ==
    LET e1 == resetTime(e, t)
        e2 == IF e1.currentScene # NoScene
              THEN [e1 EXCEPT !.currentScene = resetSimulation(@)]
              ELSE e1
    IN IF ~e2.running THEN start(e2, t) ELSE e2

\* main.ts loadScene(key): engine.loadScene(new SceneClass); engine.start().
routeScene(e, t) == start(loadScene(e, NewScene, t), t)

\* ---------------------------------------------------------------- actions

HostIdle == due = 0
HostSame == UNCHANGED << now, due, frameTime >>

\* Wall time passes between two events.
AdvanceTime ==
    /\ HostIdle
    /\ \E d \in Jumps :
         /\ now + d <= MaxNow
         /\ now' = now + d
    /\ Becomes(Eng)
    /\ UNCHANGED << due, frameTime >>

\* The host begins a frame: the queued callbacks become due, with one timestamp.
NextFrame ==
    /\ HostIdle
    /\ pending > 0
    /\ \E lag \in 0..MaxLag :
         /\ now - lag > frameTime
         /\ frameTime' = now - lag
    /\ due' = pending
    /\ Becomes([Eng EXCEPT !.pending = 0])
    /\ now' = now

\* The host runs one due callback: Engine.loop(frameTime).
Loop ==
    /\ due > 0
    /\ due' = due - 1
    /\ Becomes(loop(Eng, frameTime))
    /\ UNCHANGED << now, frameTime >>

\* main.ts handleRoute, '#scene=<key>': load the scene and start the engine.
RouteScene ==
    /\ HostIdle
    /\ running \/ pending < MaxPending
    /\ Becomes(routeScene(Eng, now))
    /\ HostSame

\* main.ts handleRoute, '#scene=<unknown key>': only engine.start().
RouteUnknown ==
    /\ HostIdle
    /\ ~running /\ pending < MaxPending
    /\ Becomes(start(Eng, now))
    /\ HostSame

\* main.ts handleRoute, home: engine.pause().
RouteHome ==
    /\ HostIdle
    /\ running
    /\ Becomes(pause(Eng, now))
    /\ HostSame

\* The pause / resume button: engine.toggle().
Toggle ==
    /\ HostIdle
    /\ running \/ pending < MaxPending
    /\ Becomes(toggle(Eng, now))
    /\ HostSame

\* The reset button.
ResetButton ==
    /\ HostIdle
    /\ Becomes(resetBtnClick(Eng, now))
    /\ HostSame

\* A launch slider is moved: parameter change, then request-reset.
ChangeLaunch ==
    /\ HostIdle
    /\ currentScene # NoScene
    /\ \E launch \in Launches : Becomes(requestReset(Eng, launch, now))
    /\ HostSame

\* A recording starts.
RecordStart ==
    /\ HostIdle
    /\ running \/ pending < MaxPending
    /\ Becomes(recordStart(Eng, now))
    /\ HostSame

\* Engine.constructor
EngineInit ==
    /\ currentScene = NoScene
    /\ running = FALSE
    /\ lastFrameTime = 0
    /\ accumulatedTime = 0
    /\ physicsTime = 0
    /\ now = 1
    /\ pending = 0
    /\ due = 0
    /\ frameTime = 0
    /\ calls = << >>
    /\ alpha = << >>
    /\ rendered = << >>
    /\ uncaught = FALSE
    /\ stepsDone = 0
    /\ delivered = 0
    /\ clamped = FALSE
    /\ failed = FALSE

\* No module is exercised on its own.
NoModule ==
    /\ state = << >>
    /\ simTime = 0
    /\ nsteps = 0
    /\ last = [method |-> "none"]

Init == EngineInit /\ NoModule

Next ==
    \/ AdvanceTime
    \/ NextFrame
    \/ Loop
    \/ RouteScene
    \/ RouteUnknown
    \/ RouteHome
    \/ Toggle
    \/ ResetButton
    \/ ChangeLaunch
    \/ RecordStart

Spec == Init /\ [][Next]_vars

\* ------------------------------------------------------- number arithmetic

\* A JavaScript number: a finite value (an integer here, a quotient rounding
\* toward zero), NaN, or an infinity.  A result beyond MaxFinite overflows to
\* an infinity, as one beyond Number.MAX_VALUE does.
NaN == [fin |-> FALSE, v |-> 0]
Infinity == [fin |-> FALSE, v |-> 1]
NegInfinity == [fin |-> FALSE, v |-> -1]
Fin(n) ==
    IF n > MaxFinite THEN Infinity
    ELSE IF n < -MaxFinite THEN NegInfinity
    ELSE [fin |-> TRUE, v |-> n]

IsNaN(a) == ~a.fin /\ a.v = 0
Sign(n) == IF n < 0 THEN -1 ELSE 1

\* a + b
fAdd(a, b) ==
    IF IsNaN(a) \/ IsNaN(b) THEN NaN
    ELSE IF ~a.fin THEN (IF ~b.fin /\ b.v # a.v THEN NaN ELSE a)
    ELSE IF ~b.fin THEN b
    ELSE Fin(a.v + b.v)

\* a * b
fMul(a, b) ==
    IF IsNaN(a) \/ IsNaN(b) THEN NaN
    ELSE IF a.fin /\ b.fin THEN Fin(a.v * b.v)
    ELSE IF (a.fin /\ a.v = 0) \/ (b.fin /\ b.v = 0) THEN NaN
    ELSE [fin |-> FALSE, v |-> Sign(a.v) * Sign(b.v)]

\* a / b
fDiv(a, b) ==
    IF IsNaN(a) \/ IsNaN(b) THEN NaN
    ELSE IF ~a.fin THEN (IF ~b.fin THEN NaN
                         ELSE [fin |-> FALSE, v |-> Sign(a.v) * Sign(b.v)])
    ELSE IF ~b.fin THEN Fin(0)
    ELSE IF b.v = 0 THEN (IF a.v = 0 THEN NaN
                          ELSE [fin |-> FALSE, v |-> Sign(a.v)])
    ELSE Fin(Sign(a.v) * Sign(b.v) * (Abs(a.v) \div Abs(b.v)))

\* -a
fNeg(a) == [fin |-> a.fin, v |-> -a.v]

\* rates[key] of an object that may lack the key: undefined is NaN in
\* arithmetic.
Get(rates, key) == IF key \in DOMAIN rates THEN rates[key] ELSE NaN

\* a - b
fSub(a, b) == fAdd(a, fNeg(b))

\* Math.sin and Math.cos, for angles counted in quarter turns (exact at every
\* whole angle); NaN for an angle that is not finite.
Sin(a) ==
    IF ~a.fin THEN NaN
    ELSE Fin(CASE a.v % 4 = 0 -> 0 [] a.v % 4 = 1 -> 1
               [] a.v % 4 = 2 -> 0 [] a.v % 4 = 3 -> -1)

Cos(a) ==
    IF ~a.fin THEN NaN
    ELSE Fin(CASE a.v % 4 = 0 -> 1 [] a.v % 4 = 1 -> 0
               [] a.v % 4 = 2 -> -1 [] a.v % 4 = 3 -> 0)

\* ----------------------------------------------------------------- Physics

\* Physics.doublePendulumAccelerations(params, state)
doublePendulumAccelerations(p, st) ==
    LET sinDiff == Sin(fSub(st.theta1, st.theta2))
        cosDiff == Cos(fSub(st.theta1, st.theta2))
        sinT1 == Sin(st.theta1)
        two == Fin(2)
        w1sq == fMul(st.omega1, st.omega1)
        w2sq == fMul(st.omega2, st.omega2)
        denCommon ==
            fSub(fAdd(fMul(two, p.m1), p.m2),
                 fMul(p.m2, Cos(fSub(fMul(two, st.theta1),
                                     fMul(two, st.theta2)))))
        den1 == fMul(p.L1, denCommon)
        den2 == fMul(p.L2, denCommon)
        num1 ==
            fSub(fSub(fMul(fMul(fNeg(p.g), fAdd(fMul(two, p.m1), p.m2)), sinT1),
                      fMul(fMul(p.m2, p.g),
                           Sin(fSub(st.theta1, fMul(two, st.theta2))))),
                 fMul(fMul(fMul(two, sinDiff), p.m2),
                      fAdd(fMul(w2sq, p.L2),
                           fMul(fMul(w1sq, p.L1), cosDiff))))
        num2 ==
            fMul(fMul(two, sinDiff),
                 fAdd(fAdd(fMul(fMul(w1sq, p.L1), fAdd(p.m1, p.m2)),
                           fMul(fMul(p.g, fAdd(p.m1, p.m2)), Cos(st.theta1))),
                      fMul(fMul(fMul(w2sq, p.L2), p.m2), cosDiff)))
    IN [alpha1 |-> fDiv(num1, den1), alpha2 |-> fDiv(num2, den2)]

\* Physics.springForce(k, displacement) pushing away from the rest position.
springForceRepelling(k, displacement) == fMul(k, displacement)

\* Physics.springForce(k, displacement)
springForce(k, displacement) == fMul(fNeg(k), displacement)

\* Physics.dampingForce(c, velocity)
dampingForce(c, velocity) == fMul(fNeg(c), velocity)

\* Physics.acceleration(force, mass)
acceleration(force, mass) == fDiv(force, mass)

\* Physics.pendulumAngularAcceleration(g, length, theta, damping, mass, omega)
pendulumAngularAcceleration(g, length, theta, damping, mass, omega) ==
    LET gravityTerm == fMul(fNeg(fDiv(g, length)), Sin(theta))
        dampingTerm == IF damping # Fin(0) /\ ~IsNaN(damping)
                       THEN fMul(fNeg(fDiv(damping, mass)), omega)
                       ELSE Fin(0)
    IN fAdd(gravityTerm, dampingTerm)

\* Parameters of a SimplePendulumScene, within its sliders' ranges: length 2,
\* mass 1, g 2, damping 1.
SimplePendulumParams ==
    [length |-> Fin(2), mass |-> Fin(1), g |-> Fin(2), damping |-> Fin(1)]

\* The derivative function SimplePendulumScene.update hands to rk4.
simplePendulumDerivatives(st, t) ==
    LET p == SimplePendulumParams
    IN [theta |-> st.omega,
        omega |-> pendulumAngularAcceleration(p.g, p.length, st.theta,
                                              p.damping, p.mass, st.omega)]

\* Parameters of a SpringOscillatorScene, within its sliders' ranges: mass 1,
\* stiffness 10, damping 1.
SpringOscillatorParams ==
    [mass |-> Fin(1), stiffness |-> Fin(10), damping |-> Fin(1)]

\* The acceleration function SpringOscillatorScene.update hands to
\* semiImplicitEuler.
springOscillatorAcceleration(pos, vel, t) ==
    LET p == SpringOscillatorParams
        force == fAdd(springForce(p.stiffness, pos),
                      dampingForce(p.damping, vel))
    IN acceleration(force, p.mass)

\* Undamped springs (c = 0) of mass 1, in units in which a step is dt = 1:
\* their stiffness is k / m * dt * dt, which the scenes' sliders and the
\* fixed step keep below 4.
UndampedSprings ==
    [soft  |-> [k |-> Fin(1), c |-> Fin(0), m |-> Fin(1)],
     firm  |-> [k |-> Fin(2), c |-> Fin(0), m |-> Fin(1)],
     stiff |-> [k |-> Fin(3), c |-> Fin(0), m |-> Fin(1)]]

\* The acceleration of a ball on a spring: spring force and damping force
\* over the mass.
springAcceleration(p, pos, vel) ==
    acceleration(fAdd(springForce(p.k, pos), dampingForce(p.c, vel)), p.m)

\* The parameters of a DoublePendulumScene: the masses and lengths it is
\* constructed with, g at its slider's minimum 1.0 (its default 9.8 takes the
\* state beyond MaxFinite within one update), the initial angles of 90
\* degrees as one quarter turn.
DoublePendulumParams ==
    [m1 |-> Fin(1), m2 |-> Fin(1), L1 |-> Fin(1), L2 |-> Fin(1),
     g |-> Fin(1), theta1_0 |-> 1, theta2_0 |-> 1]

\* The derivative function DoublePendulumScene.update hands to rk4.
doublePendulumDerivatives(st, t) ==
    LET a == doublePendulumAccelerations(DoublePendulumParams, st)
    IN [theta1 |-> st.omega1, theta2 |-> st.omega2,
        omega1 |-> a.alpha1, omega2 |-> a.alpha2]

\* ------------------------------------------------------------- Integrator

\* Step sizes the integrator is called with (multiples of 6, so that dt * 0.5
\* and (...) * dt / 6 are exact).
StepSizes == {0, 6}

\* Integrator states given initially: with and without a field no rate has.
InitialStates ==
    { [pos |-> Fin(p), vel |-> Fin(w)] : p \in {0, 1}, w \in {0, 1} }
    \cup { [pos |-> Fin(1), vel |-> Fin(0), mass |-> Fin(2)] }

\* Derivative functions (state, t) => rates that callers supply: a harmonic
\* oscillator; one whose rates omit vel and depend on the time; one whose
\* rates carry an extra field; one that divides by zero; one whose rates omit
\* vel after time 0.
DerivativeFunctions == {"oscillator", "clock", "extra", "singular", "fading"}

derivatives(f, st, t) ==
    CASE f = "doublePendulum" -> doublePendulumDerivatives(st, t)
      [] f = "simplePendulum" -> simplePendulumDerivatives(st, t)
      [] f = "oscillator" -> [pos |-> st.vel, vel |-> fNeg(st.pos)]
      [] f \in DOMAIN UndampedSprings ->
            [pos |-> st.vel,
             vel |-> springAcceleration(UndampedSprings[f], st.pos, st.vel)]
      [] f = "clock"      -> [pos |-> Fin(t)]
      [] f = "extra"      -> [pos |-> st.vel, vel |-> Fin(1), jerk |-> Fin(5)]
      [] f = "singular"   -> [pos |-> fDiv(st.vel, Fin(0)), vel |-> Fin(0)]
      [] f = "fading"     -> IF t = 0 THEN [pos |-> st.vel, vel |-> Fin(1)]
                             ELSE [pos |-> st.vel]

\* Acceleration functions (pos, vel, t) => acc that callers supply: a spring, a
\* driven damper, one that divides by zero.
AccelerationFunctions == {"spring", "driven", "singular"}

accelerationFunc(f, pos, vel, t) ==
    CASE f = "springOscillator" -> springOscillatorAcceleration(pos, vel, t)
      [] f = "spring"   -> fNeg(pos)
      [] f \in DOMAIN UndampedSprings ->
            springAcceleration(UndampedSprings[f], pos, vel)
      [] f = "driven"   -> fAdd(Fin(t), fNeg(vel))
      [] f = "singular" -> fDiv(pos, Fin(0))

\* One call of the caller-supplied function, as the history records it.
Called(st, t) == [state |-> st, t |-> t]

\* Integrator.euler with the new state built from the keys of rates.
eulerOverRates(st, t, dt, f) ==
    LET rates == derivatives(f, st, t)
        newState == [key \in DOMAIN rates |->
                        fAdd(Get(st, key), fMul(rates[key], Fin(dt)))]
    IN [state |-> newState, calls |-> << Called(st, t) >>]

\* Integrator.euler with a step of at least one step size.
eulerMinimumStep(st, t, dt, f) ==
    LET rates == derivatives(f, st, t)
        h == IF dt = 0 THEN 6 ELSE dt
        newState == [key \in DOMAIN st |->
                        IF key \in DOMAIN rates
                        THEN fAdd(st[key], fMul(rates[key], Fin(h)))
                        ELSE st[key]]
    IN [state |-> newState, calls |-> << Called(st, t) >>]

\* Integrator.euler(state, t, dt, derivatives): the new state and the calls
\* of derivatives made.
euler(st, t, dt, f) ==
    LET rates == derivatives(f, st, t)
        newState == [key \in DOMAIN st |->
                        IF key \in DOMAIN rates
                        THEN fAdd(st[key], fMul(rates[key], Fin(dt)))
                        ELSE st[key]]
    IN [state |-> newState, calls |-> << Called(st, t) >>]

\* The stage state of rk4: state[key] + k[key] * h where k has the key.
Stage(st, k, h) ==
    [key \in DOMAIN st |->
        IF key \in DOMAIN k THEN fAdd(st[key], fMul(k[key], h)) ELSE st[key]]

\* dt * 0.5 applied to k[key] * dt
Half(a) == fDiv(a, Fin(2))

\* The stage state of rk4 for half a step: state[key] + k[key] * dt * 0.5.
HalfStage(st, k, dt) ==
    [key \in DOMAIN st |->
        IF key \in DOMAIN k
        THEN fAdd(st[key], Half(fMul(k[key], Fin(dt))))
        ELSE st[key]]

\* The weighted sum of rk4: state[key] + (k1 + 2 k2 + 2 k3 + k4)[key] * dt / 6
\* where k1 has the key.
Combine(st, k1, k2, k3, k4, dt) ==
    [key \in DOMAIN st |->
        IF key \in DOMAIN k1
        THEN fAdd(st[key],
                  fDiv(fMul(fAdd(fAdd(fAdd(k1[key], fMul(Fin(2), Get(k2, key))),
                                      fMul(Fin(2), Get(k3, key))),
                                 Get(k4, key)),
                            Fin(dt)),
                       Fin(6)))
        ELSE st[key]]

\* Integrator.rk4 with the third stage left out (k3 = k2).
rk4ThreeStages(st, t, dt, f) ==
    WithValue(derivatives(f, st, t), LAMBDA k1 :
    WithValue(HalfStage(st, k1, dt), LAMBDA state2 :
    WithValue(derivatives(f, state2, t + dt \div 2), LAMBDA k2 :
    WithValue(Stage(st, k2, Fin(dt)), LAMBDA state4 :
    WithValue(derivatives(f, state4, t + dt), LAMBDA k4 :
        [state |-> Combine(st, k1, k2, k2, k4, dt),
         calls |-> << Called(st, t), Called(state2, t + dt \div 2),
                      Called(state4, t + dt) >>])))))

\* Integrator.rk4(state, t, dt, derivatives): k1, state2, k2, state3, k3,
\* state4 and k4 are computed once each, in this order.
rk4(st, t, dt, f) ==
    WithValue(derivatives(f, st, t), LAMBDA k1 :
    WithValue(HalfStage(st, k1, dt), LAMBDA state2 :
    WithValue(derivatives(f, state2, t + dt \div 2), LAMBDA k2 :
    WithValue(HalfStage(st, k2, dt), LAMBDA state3 :
    WithValue(derivatives(f, state3, t + dt \div 2), LAMBDA k3 :
    WithValue(Stage(st, k3, Fin(dt)), LAMBDA state4 :
    WithValue(derivatives(f, state4, t + dt), LAMBDA k4 :
        [state |-> Combine(st, k1, k2, k3, k4, dt),
         calls |-> << Called(st, t), Called(state2, t + dt \div 2),
                      Called(state3, t + dt \div 2),
                      Called(state4, t + dt) >>])))))))

\* Integrator.semiImplicitEuler with the position advanced by the old velocity.
semiImplicitEulerPositionFirst(pos, vel, t, dt, f) ==
    LET acc == accelerationFunc(f, pos, vel, t)
        newPos == fAdd(pos, fMul(vel, Fin(dt)))
        newVel == fAdd(vel, fMul(acc, Fin(dt)))
    IN [state |-> [pos |-> newPos, vel |-> newVel],
        calls |-> << Called([pos |-> pos, vel |-> vel], t) >>]

\* Integrator.semiImplicitEuler(pos, vel, t, dt, accelerationFunc)
semiImplicitEuler(pos, vel, t, dt, f) ==
    LET acc == accelerationFunc(f, pos, vel, t)
        newVel == fAdd(vel, fMul(acc, Fin(dt)))
        newPos == fAdd(pos, fMul(newVel, Fin(dt)))
    IN [state |-> [pos |-> newPos, vel |-> newVel],
        calls |-> << Called([pos |-> pos, vel |-> vel], t) >>]

\* A caller integrates one step and keeps the result.
Integrated(method, f, dt, input, r) ==
    /\ state' = r.state
    /\ simTime' = simTime + dt
    /\ nsteps' = nsteps + 1
    /\ last' = [method |-> method, f |-> f, dt |-> dt, t |-> simTime,
                input |-> input, calls |-> r.calls]
    /\ UNCHANGED engineVars

EulerStep ==
    /\ nsteps < MaxSteps
    /\ \E f \in DerivativeFunctions, dt \in StepSizes :
         Integrated("euler", f, dt, state, euler(state, simTime, dt, f))

Rk4Step ==
    /\ nsteps < MaxSteps
    /\ \E f \in DerivativeFunctions, dt \in StepSizes :
         Integrated("rk4", f, dt, state, rk4(state, simTime, dt, f))

SemiImplicitEulerStep ==
    /\ nsteps < MaxSteps
    /\ \E f \in AccelerationFunctions, dt \in StepSizes :
         Integrated("semiImplicitEuler", f, dt,
                    [pos |-> state.pos, vel |-> state.vel],
                    semiImplicitEuler(state.pos, state.vel, simTime, dt, f))

IntegratorInit ==
    /\ EngineInit
    /\ state \in InitialStates
    /\ simTime = 0
    /\ nsteps = 0
    /\ last = [method |-> "none"]

IntegratorNext == EulerStep \/ Rk4Step \/ SemiImplicitEulerStep

IntegratorSpec == IntegratorInit /\ [][IntegratorNext]_vars

\* ------------------------------------------- the energy of a spring

\* Twice the mechanical energy of a ball on a spring: m v^2 + k x^2.
Energy(f, st) ==
    LET p == UndampedSprings[f]
    IN fAdd(fMul(p.m, fMul(st.vel, st.vel)), fMul(p.k, fMul(st.pos, st.pos)))

\* A ball released or launched on a spring, to be stepped by one method.
SpringStarts ==
    { [method |-> method, f |-> f, pos |-> Fin(x), vel |-> Fin(v)] :
         method \in {"semiImplicitEuler", "euler"},
         f \in DOMAIN UndampedSprings, x \in {1, 10}, v \in {0, 3} }

\* The spring is stepped with semiImplicitEuler, dt = 1.
SymplecticSpringStep ==
    /\ state.method = "semiImplicitEuler"
    /\ nsteps < EnergySteps
    /\ LET r == semiImplicitEuler(state.pos, state.vel, simTime, 1, state.f)
       IN state' = [state EXCEPT !.pos = r.state.pos, !.vel = r.state.vel]
    /\ simTime' = simTime + 1
    /\ nsteps' = nsteps + 1
    /\ last' = [last EXCEPT !.method = "semiImplicitEuler",
                            !.before = Energy(state.f, state)]
    /\ UNCHANGED engineVars

\* The spring is stepped with euler, dt = 1.
ExplicitSpringStep ==
    /\ state.method = "euler"
    /\ nsteps < EnergySteps
    /\ LET r == euler([pos |-> state.pos, vel |-> state.vel], simTime, 1,
                      state.f)
       IN state' = [state EXCEPT !.pos = r.state.pos, !.vel = r.state.vel]
    /\ simTime' = simTime + 1
    /\ nsteps' = nsteps + 1
    /\ last' = [last EXCEPT !.method = "euler",
                            !.before = Energy(state.f, state)]
    /\ UNCHANGED engineVars

SpringEnergyInit ==
    /\ EngineInit
    /\ state \in SpringStarts
    /\ simTime = 0
    /\ nsteps = 0
    /\ last = [method |-> "none", initial |-> Energy(state.f, state),
               before |-> Energy(state.f, state)]

SpringEnergyNext == SymplecticSpringStep \/ ExplicitSpringStep

SpringEnergySpec == SpringEnergyInit /\ [][SpringEnergyNext]_vars

\* ---------------------------------------------------- DoublePendulumScene

\* Initial angles the theta1_0 / theta2_0 sliders give, in quarter turns.
InitialAngles == {0, 1, 2, 3}

\* The dt of an update: the reset button's 0, and the fixed step (4 units of
\* 1/240 s).
UpdateSteps == {0, 4}

\* DoublePendulumScene.constructor
NewDoublePendulum ==
    [params |-> DoublePendulumParams,
     phys |-> [theta1 |-> Fin(1), theta2 |-> Fin(1),
               omega1 |-> Fin(0), omega2 |-> Fin(0)],
     trail |-> << >>]

\* DoublePendulumScene.resetSimulation
doublePendulumResetSimulation(s) ==
    [s EXCEPT !.phys = [theta1 |-> Fin(s.params.theta1_0),
                        theta2 |-> Fin(s.params.theta2_0),
                        omega1 |-> Fin(0), omega2 |-> Fin(0)],
              !.trail = << >>]

\* One call of Integrator.rk4 by the scene, as the history records it.
SubStep(phys, t, dt) == [state |-> phys, t |-> t, dt |-> dt]

\* The sub-step loop with every sub-step started from the state the update
\* began with.
RECURSIVE subStepsFromStart(_, _, _, _, _)
subStepsFromStart(phys, t, subDt, i, done) ==
    IF i < steps - 1
    THEN subStepsFromStart(phys, t, subDt, i + 1,
                           Append(done, SubStep(phys, t + i * subDt, subDt)))
    ELSE [phys |-> rk4(phys, t + i * subDt, subDt, "doublePendulum").state,
          calls |-> Append(done, SubStep(phys, t + i * subDt, subDt))]

\* for (let i = 0; i < steps; i++) this.phys = Integrator.rk4(this.phys,
\* t + i * subDt, subDt, derivatives)
RECURSIVE subSteps(_, _, _, _, _)
subSteps(phys, t, subDt, i, done) ==
    IF i < steps
    THEN WithValue(rk4(phys, t + i * subDt, subDt, "doublePendulum").state,
                   LAMBDA next :
                     subSteps(next, t, subDt, i + 1,
                              Append(done, SubStep(phys, t + i * subDt, subDt))))
    ELSE [phys |-> phys, calls |-> done]

\* DoublePendulumScene.update(dt, t): the scene after the call and the rk4
\* calls made.
doublePendulumUpdate(s, dt, t) ==
    LET subDt == dt \div steps
    IN WithValue(subSteps(s.phys, t, subDt, 0, << >>), LAMBDA r :
    LET p == s.params
        x1 == fMul(p.L1, Sin(r.phys.theta1))
        y1 == fMul(fNeg(p.L1), Cos(r.phys.theta1))
        x2 == fAdd(x1, fMul(p.L2, Sin(r.phys.theta2)))
        y2 == fSub(y1, fMul(p.L2, Cos(r.phys.theta2)))
        n == Len(s.trail)
        pushed == Append(s.trail, [x |-> x2, y |-> y2, t |-> t])
        trail1 ==
            IF n = 0 \/ Abs(s.trail[n].t - t) > doublePendulumTrailInterval
            THEN (IF Len(pushed) > trailLength THEN Tail(pushed) ELSE pushed)
            ELSE s.trail
    IN [scene |-> [s EXCEPT !.phys = r.phys, !.trail = trail1],
        calls |-> r.calls])

\* The engine's loop, or the reset button, updates the scene.
DoublePendulumUpdate ==
    /\ nsteps < MaxSteps
    /\ \E dt \in UpdateSteps :
         LET r == doublePendulumUpdate(state, dt, simTime)
         IN /\ state' = r.scene
            /\ simTime' = simTime + dt
            /\ last' = [method |-> "update", dt |-> dt, t |-> simTime,
                        input |-> state.phys, calls |-> r.calls]
    /\ nsteps' = nsteps + 1
    /\ UNCHANGED engineVars

\* An initial-angle slider is moved: the scene and the clock are reset.
DoublePendulumReset ==
    /\ \E a \in InitialAngles, b \in InitialAngles :
         state' = doublePendulumResetSimulation(
                      [state EXCEPT !.params.theta1_0 = a,
                                    !.params.theta2_0 = b])
    /\ simTime' = 0
    /\ last' = [method |-> "resetSimulation"]
    /\ UNCHANGED nsteps
    /\ UNCHANGED engineVars

DoublePendulumInit ==
    /\ EngineInit
    /\ state = doublePendulumResetSimulation(NewDoublePendulum)
    /\ simTime = 0
    /\ nsteps = 0
    /\ last = [method |-> "none"]

DoublePendulumNext == DoublePendulumUpdate \/ DoublePendulumReset

DoublePendulumSpec == DoublePendulumInit /\ [][DoublePendulumNext]_vars

\* ----------------------------------- scenes that keep a previous state

\* Objects live at addresses; a scene's phys, prevPhys and state fields refer
\* to objects.  No object: address 0.
Addresses == 1..4
NoObject == 0

\* The dt of an update, in fixed steps: the reset button's 0, and one step.
FrameSteps == {0, 1}

\* A new object: an address no field of the scene refers to.
Fresh(s) ==
    CHOOSE a \in Addresses :
        /\ a \notin {s.phys, s.prevPhys, s.shown}
        /\ \A b \in Addresses :
              b \notin {s.phys, s.prevPhys, s.shown} => a <= b

\* The objects no field refers to any more are collected.
Collected(s) ==
    [s EXCEPT !.heap = [a \in ({s.phys, s.prevPhys, s.shown} \ {NoObject})
                           |-> s.heap[a]]]

\* this.prevPhys = this.phys: the same object under both fields.
savePreviousByReference(s) == Collected([s EXCEPT !.prevPhys = s.phys])

\* this.prevPhys = { ...this.phys }: a new object with the fields of phys.
savePrevious(s) ==
    LET a == Fresh(s)
    IN Collected([s EXCEPT !.heap = [b \in DOMAIN s.heap \cup {a} |->
                                        IF b = a THEN s.heap[s.phys]
                                        ELSE s.heap[b]],
                           !.prevPhys = a])

\* this.phys = value: a new object under phys.
setPhys(s, value) ==
    LET a == Fresh(s)
    IN Collected([s EXCEPT !.heap = [b \in DOMAIN s.heap \cup {a} |->
                                        IF b = a THEN value ELSE s.heap[b]],
                           !.phys = a])

\* this.state = value: a new object under state.
setShown(s, value) ==
    LET a == Fresh(s)
    IN Collected([s EXCEPT !.heap = [b \in DOMAIN s.heap \cup {a} |->
                                        IF b = a THEN value ELSE s.heap[b]],
                           !.shown = a])

\* The object under phys.
Phys(s) == s.heap[s.phys]

\* SimplePendulumScene.constructor: theta0 is 30 degrees there; the slider
\* gives whole quarter turns from -1 to 1.
NewSimplePendulum ==
    savePrevious([kind |-> "simplePendulum", params |-> [theta0 |-> 1],
                  heap |-> [a \in {1} |-> [theta |-> Fin(1), omega |-> Fin(0)]],
                  phys |-> 1, prevPhys |-> NoObject, shown |-> NoObject,
                  trail |-> << >>])

\* SimplePendulumScene.resetSimulation
simplePendulumResetSimulation(s) ==
    savePrevious([s EXCEPT !.heap[s.phys].theta = Fin(s.params.theta0),
                           !.heap[s.phys].omega = Fin(0)])

\* SimplePendulumScene.update(dt, t)
simplePendulumUpdate(s, dt, t) ==
    LET s1 == savePrevious(s)
        s2 == setPhys(s1, rk4(Phys(s1), t, dt, "simplePendulum").state)
    IN setShown(s2, Phys(s2))

\* SpringOscillatorScene.constructor
NewSpringOscillator ==
    savePrevious([kind |-> "springOscillator", params |-> [amplitude |-> 150],
                  heap |-> [a \in {1} |-> [x |-> Fin(150), v |-> Fin(0)]],
                  phys |-> 1, prevPhys |-> NoObject, shown |-> NoObject,
                  trail |-> << >>])

\* SpringOscillatorScene.resetSimulation
springOscillatorResetSimulation(s) ==
    savePrevious([s EXCEPT !.heap[s.phys].x = Fin(s.params.amplitude),
                           !.heap[s.phys].v = Fin(0)])

\* SpringOscillatorScene.update(dt, t)
springOscillatorUpdate(s, dt, t) ==
    LET s1 == savePrevious(s)
        newState == semiImplicitEuler(Phys(s1).x, Phys(s1).v, t, dt,
                                      "springOscillator").state
        s2 == [s1 EXCEPT !.heap[s1.phys].x = newState.pos,
                         !.heap[s1.phys].v = newState.vel]
        p == SpringOscillatorParams
        F_spring == springForce(p.stiffness, Phys(s2).x)
        F_damping == dampingForce(p.damping, Phys(s2).v)
        F_net == fAdd(F_spring, F_damping)
    IN setShown(s2, [x |-> Phys(s2).x, v |-> Phys(s2).v,
                     a |-> acceleration(F_net, p.mass),
                     F_spring |-> F_spring, F_damping |-> F_damping,
                     F_net |-> F_net])

\* The layout FreeFallScene computes with: groundYOffset, the ball's radius,
\* the longest trail.
FreeFallLayout == [groundYOffset |-> 50, radius |-> 10, maxTrailLength |-> 240]

\* The heights in pixels of the surface the scene is shown on.
SurfaceHeights == {150, 200}

\* const groundY = this.height - this.groundYOffset
groundY(s) == s.height - FreeFallLayout.groundYOffset

\* FreeFallScene.constructor
NewFreeFall ==
    savePrevious([kind |-> "freeFall", height |-> 150,
                  params |-> [height |-> 50, gravity |-> 1, v0 |-> 0,
                              restitution |-> 0, showTrail |-> TRUE],
                  heap |-> [a \in {1} |->
                              [y |-> Fin(0), vy |-> Fin(0), t |-> Fin(0)]],
                  phys |-> 1, prevPhys |-> NoObject, shown |-> NoObject,
                  trail |-> << >>])

\* FreeFallScene.resetSimulation
freeFallResetSimulation(s) ==
    LET p == s.params
        s1 == setPhys(s, [y |-> Fin(groundY(s) - p.height),
                          vy |-> Fin(p.v0 * 10), simV0 |-> Fin(p.v0 * 10),
                          simG |-> Fin(p.gravity * 10), t |-> Fin(0)])
        s2 == [s1 EXCEPT !.heap[s1.phys].vy = Phys(s1).simV0]
    IN [savePrevious(s2) EXCEPT !.trail = << >>]

\* The ball of FreeFallScene.update after the collision with the ground.
Landed(ball, ground, restitution, dt) ==
    LET b1 == [ball EXCEPT !.y = Fin(ground - FreeFallLayout.radius)]
    IN IF restitution > 0
       THEN LET vy1 == fMul(fNeg(b1.vy), Fin(restitution))
            IN IF vy1.fin /\ b1.simG.fin
                  /\ Abs(vy1.v) < b1.simG.v * dt * 2
               THEN [b1 EXCEPT !.vy = Fin(0)]
               ELSE [b1 EXCEPT !.vy = vy1]
       ELSE [b1 EXCEPT !.vy = Fin(0)]

\* FreeFallScene.update(dt, totalTime)
freeFallUpdate(s, dt, t) ==
    LET s1 == savePrevious(s)
        vy1 == fAdd(Phys(s1).vy, fMul(Phys(s1).simG, Fin(dt)))
        y1 == fAdd(Phys(s1).y, fMul(vy1, Fin(dt)))
        moved == [Phys(s1) EXCEPT !.vy = vy1, !.y = y1]
        hit == y1 = Infinity
               \/ (y1.fin /\ y1.v + FreeFallLayout.radius > groundY(s))
        ball == IF hit
                THEN Landed(moved, groundY(s), s.params.restitution, dt)
                ELSE moved
        ball1 == [ball EXCEPT !.t = fAdd(@, Fin(dt))]
        pushed == Append(s.trail, [y |-> ball1.y])
        trail1 == IF s.params.showTrail
                  THEN (IF Len(pushed) > FreeFallLayout.maxTrailLength
                        THEN Tail(pushed) ELSE pushed)
                  ELSE << >>
    IN [s1 EXCEPT !.heap[s1.phys] = ball1, !.trail = trail1]

\* FreeFallScene.resize(width, height): Scene.resize, then resetSimulation.
freeFallResize(s, width, height) ==
    freeFallResetSimulation([s EXCEPT !.height = height])

\* An operation on the scene, as the history records it: the value of phys
\* before it.
Did(method, dt, input) == [method |-> method, dt |-> dt, input |-> input]

SimplePendulumUpdate ==
    /\ state.kind = "simplePendulum"
    /\ nsteps < MaxSteps
    /\ \E dt \in FrameSteps :
         /\ state' = simplePendulumUpdate(state, dt, simTime)
         /\ simTime' = simTime + dt
         /\ last' = Did("update", dt, Phys(state))
    /\ nsteps' = nsteps + 1
    /\ UNCHANGED engineVars

\* The theta0 slider is moved: resetSimulation, resetTime.
SimplePendulumReset ==
    /\ state.kind = "simplePendulum"
    /\ \E theta0 \in {-1, 0, 1} :
         state' = simplePendulumResetSimulation(
                      [state EXCEPT !.params.theta0 = theta0])
    /\ simTime' = 0
    /\ last' = Did("resetSimulation", 0, Phys(state))
    /\ UNCHANGED nsteps
    /\ UNCHANGED engineVars

SpringOscillatorUpdate ==
    /\ state.kind = "springOscillator"
    /\ nsteps < MaxSteps
    /\ \E dt \in FrameSteps :
         /\ state' = springOscillatorUpdate(state, dt, simTime)
         /\ simTime' = simTime + dt
         /\ last' = Did("update", dt, Phys(state))
    /\ nsteps' = nsteps + 1
    /\ UNCHANGED engineVars

\* The amplitude slider is moved: resetSimulation, resetTime.
SpringOscillatorReset ==
    /\ state.kind = "springOscillator"
    /\ \E amplitude \in {50, 60} :
         state' = springOscillatorResetSimulation(
                      [state EXCEPT !.params.amplitude = amplitude])
    /\ simTime' = 0
    /\ last' = Did("resetSimulation", 0, Phys(state))
    /\ UNCHANGED nsteps
    /\ UNCHANGED engineVars

FreeFallUpdate ==
    /\ state.kind = "freeFall"
    /\ nsteps < MaxSteps
    /\ \E dt \in FrameSteps :
         /\ state' = freeFallUpdate(state, dt, simTime)
         /\ simTime' = simTime + dt
         /\ last' = Did("update", dt, Phys(state))
    /\ nsteps' = nsteps + 1
    /\ UNCHANGED engineVars

\* The height or restitution slider is moved: resetSimulation, resetTime.
FreeFallReset ==
    /\ state.kind = "freeFall"
    /\ \E height \in {50, 60}, restitution \in {0, 1} :
         state' = freeFallResetSimulation(
                      [state EXCEPT !.params.height = height,
                                    !.params.restitution = restitution])
    /\ simTime' = 0
    /\ last' = Did("resetSimulation", 0, Phys(state))
    /\ UNCHANGED nsteps
    /\ UNCHANGED engineVars

\* The gravity slider is moved: its onChange writes phys.simG in place.
FreeFallGravity ==
    /\ state.kind = "freeFall"
    /\ \E val \in {1, 30} :
         state' = [state EXCEPT !.params.gravity = val,
                                !.heap[state.phys].simG = Fin(val * 10)]
    /\ last' = Did("gravity", 0, Phys(state))
    /\ UNCHANGED << simTime, nsteps >>
    /\ UNCHANGED engineVars

\* The surface is resized: Engine.handleResize calls the scene's resize and
\* leaves the clock as it is.
FreeFallResize ==
    /\ state.kind = "freeFall"
    /\ \E height \in SurfaceHeights :
         state' = freeFallResize(state, 2 * height, height)
    /\ last' = Did("resize", 0, Phys(state))
    /\ UNCHANGED << simTime, nsteps >>
    /\ UNCHANGED engineVars

\* Each scene after its setup.
PreviousStateInit ==
    /\ EngineInit
    /\ state \in { simplePendulumResetSimulation(NewSimplePendulum),
                   springOscillatorResetSimulation(NewSpringOscillator),
                   freeFallResetSimulation(NewFreeFall) }
    /\ simTime = 0
    /\ nsteps = 0
    /\ last = [method |-> "none"]

PreviousStateNext ==
    \/ SimplePendulumUpdate
    \/ SimplePendulumReset
    \/ SpringOscillatorUpdate
    \/ SpringOscillatorReset
    \/ FreeFallUpdate
    \/ FreeFallReset
    \/ FreeFallGravity
    \/ FreeFallResize

PreviousStateSpec == PreviousStateInit /\ [][PreviousStateNext]_vars

\* ----------------------------------------------- ProjectileMotionScene

\* The g and k sliders: gravity, and drag off and on.
Gravities == {1, 2}
Drags == {0, 1}

ProjectileUpdate ==
    /\ nsteps < MaxSteps
    /\ \E dt \in {0, fixedDeltaTime} :
         LET r == update(state, dt, simTime)
         IN /\ state' = r.scene
            /\ simTime' = simTime + dt
            /\ last' = [method |-> "update", dt |-> dt,
                        wasLanded |-> state.isLanded, threw |-> r.threw]
    /\ nsteps' = nsteps + 1
    /\ UNCHANGED engineVars

\* The v0, theta or h slider is moved: resetSimulation, resetTime.
ProjectileReset ==
    /\ \E launch \in Launches :
         state' = resetSimulation([state EXCEPT !.params.h = launch.h,
                                                !.params.vx0 = launch.vx0,
                                                !.params.vy0 = launch.vy0])
    /\ simTime' = 0
    /\ last' = [method |-> "resetSimulation"]
    /\ UNCHANGED nsteps
    /\ UNCHANGED engineVars

\* The g or k slider is moved: the flight goes on with the new value.
ProjectileSlider ==
    /\ \E g \in Gravities, k \in Drags :
         state' = [state EXCEPT !.params.g = g, !.params.k = k]
    /\ last' = [method |-> "slider"]
    /\ UNCHANGED << simTime, nsteps >>
    /\ UNCHANGED engineVars

\* The showTrail checkbox is switched.
ProjectileShowTrail ==
    /\ state' = [state EXCEPT !.params.showTrail = ~@]
    /\ last' = [method |-> "showTrail"]
    /\ UNCHANGED << simTime, nsteps >>
    /\ UNCHANGED engineVars

\* The scene after setup.
ProjectileInit ==
    /\ EngineInit
    /\ state = setup(NewScene)
    /\ simTime = 0
    /\ nsteps = 0
    /\ last = [method |-> "none"]

ProjectileNext ==
    \/ ProjectileUpdate
    \/ ProjectileReset
    \/ ProjectileSlider
    \/ ProjectileShowTrail

ProjectileSpec == ProjectileInit /\ [][ProjectileNext]_vars

\* ------------------------------------------------ PlanetaryMotionScene

\* The largest k from k0 on with k * k <= n.
RECURSIVE SqrtFrom(_, _)
SqrtFrom(n, k) == IF (k + 1) * (k + 1) > n THEN k ELSE SqrtFrom(n, k + 1)

\* Math.sqrt, to whole numbers (exact at every square).
Sqrt(a) ==
    IF IsNaN(a) \/ a = NegInfinity THEN NaN
    ELSE IF ~a.fin THEN a
    ELSE IF a.v < 0 THEN NaN
    ELSE Fin(SqrtFrom(a.v, 0))

\* Physics.gravitationalForce(G, M, m, r)
gravitationalForce(G, M, m, r) ==
    IF r = Fin(0) THEN Fin(0)
    ELSE fDiv(fMul(fMul(G, M), m), fMul(r, r))

\* What PlanetaryMotionScene keeps of its trail: the sampling interval in
\* fixed steps, and the longest trail.
PlanetaryTrail == [interval |-> 6, length |-> 2000]

\* Distances r0, speeds v0 and star masses M of the sliders, in units in
\* which a planet released at rest can arrive on the star in whole steps.
Distances == {1, 2, 4}
Speeds == {0, 1}
StarMasses == {1, 4, 16}

\* PlanetaryMotionScene.constructor
NewPlanetaryMotion ==
    [kind |-> "planetaryMotion",
     params |-> [M |-> 4, v0 |-> 0, r0 |-> 4, G |-> 1, showTrail |-> TRUE],
     planet |-> [m |-> Fin(1), pos |-> [x |-> Fin(0), y |-> Fin(0)],
                 vel |-> [x |-> Fin(0), y |-> Fin(0)]],
     star |-> [pos |-> [x |-> Fin(0), y |-> Fin(0)]],
     trail |-> << >>, time |-> 0]

\* PlanetaryMotionScene.resetSimulation
planetaryMotionResetSimulation(s) ==
    [s EXCEPT !.planet.pos = [x |-> Fin(s.params.r0), y |-> Fin(0)],
              !.planet.vel = [x |-> Fin(0), y |-> Fin(s.params.v0)],
              !.trail = << >>,
              !.time = 0]

\* The locals of PlanetaryMotionScene.update: distance, force, acceleration.
Gravitation(s) ==
    LET m == s.planet.m
        dx == fSub(s.planet.pos.x, s.star.pos.x)
        dy == fSub(s.planet.pos.y, s.star.pos.y)
        r2 == fAdd(fMul(dx, dx), fMul(dy, dy))
        r == Sqrt(r2)
        F == gravitationalForce(Fin(s.params.G), Fin(s.params.M), m, r)
        Fx == fMul(fNeg(F), fDiv(dx, r))
        Fy == fMul(fNeg(F), fDiv(dy, r))
    IN [r |-> r, F |-> F, ax |-> fDiv(Fx, m), ay |-> fDiv(Fy, m)]

\* PlanetaryMotionScene.update(dt, t)
planetaryMotionUpdate(s, dt, t) ==
    LET a == Gravitation(s)
        velx == fAdd(s.planet.vel.x, fMul(a.ax, Fin(dt)))
        vely == fAdd(s.planet.vel.y, fMul(a.ay, Fin(dt)))
        posx == fAdd(s.planet.pos.x, fMul(velx, Fin(dt)))
        posy == fAdd(s.planet.pos.y, fMul(vely, Fin(dt)))
        sample == s.params.showTrail
                  /\ (s.trail = << >>
                      \/ Abs(s.trail[Len(s.trail)].t - t)
                            > PlanetaryTrail.interval)
        pushed == Append(s.trail, [x |-> posx, y |-> posy, t |-> t])
    IN [s EXCEPT !.planet.vel = [x |-> velx, y |-> vely],
                 !.planet.pos = [x |-> posx, y |-> posy],
                 !.time = @ + dt,
                 !.trail = IF ~sample THEN @
                           ELSE IF Len(pushed) > PlanetaryTrail.length
                           THEN Tail(pushed) ELSE pushed]

PlanetaryMotionUpdate ==
    /\ nsteps < MaxSteps
    /\ \E dt \in FrameSteps :
         /\ state' = planetaryMotionUpdate(state, dt, simTime)
         /\ simTime' = simTime + dt
         /\ last' = [method |-> "update", dt |-> dt,
                     gravitation |-> Gravitation(state)]
    /\ nsteps' = nsteps + 1
    /\ UNCHANGED engineVars

\* The r0 or v0 slider is moved: resetSimulation, resetTime.
PlanetaryMotionReset ==
    /\ \E r0 \in Distances, v0 \in Speeds :
         state' = planetaryMotionResetSimulation(
                      [state EXCEPT !.params.r0 = r0, !.params.v0 = v0])
    /\ simTime' = 0
    /\ last' = [method |-> "resetSimulation"]
    /\ UNCHANGED nsteps
    /\ UNCHANGED engineVars

\* The M slider is moved: the scene goes on with the new star mass.
PlanetaryMotionStarMass ==
    /\ \E M \in StarMasses : state' = [state EXCEPT !.params.M = M]
    /\ last' = [method |-> "M"]
    /\ UNCHANGED << simTime, nsteps >>
    /\ UNCHANGED engineVars

\* The scene after setup.
PlanetaryMotionInit ==
    /\ EngineInit
    /\ state = planetaryMotionResetSimulation(NewPlanetaryMotion)
    /\ simTime = 0
    /\ nsteps = 0
    /\ last = [method |-> "none"]

PlanetaryMotionNext ==
    \/ PlanetaryMotionUpdate
    \/ PlanetaryMotionReset
    \/ PlanetaryMotionStarMass

PlanetaryMotionSpec == PlanetaryMotionInit /\ [][PlanetaryMotionNext]_vars

\* ------------------------------------------------ ElasticCollisionScene

\* The numbers of this scene are fractions n / d in lowest terms, d > 0; a
\* zero d marks what a division by zero gives: NaN (n = 0) and the
\* infinities (n = 1, n = -1).
RECURSIVE GCD(_, _)
GCD(a, b) == IF b = 0 THEN a ELSE GCD(b, a % b)

Q(n, d) ==
    IF d = 0 THEN [n |-> IF n = 0 THEN 0 ELSE Sign(n), d |-> 0]
    ELSE LET g == GCD(Abs(n), Abs(d))
         IN [n |-> Sign(d) * Sign(n) * (Abs(n) \div g), d |-> Abs(d) \div g]

Whole(n) == [n |-> n, d |-> 1]
qNaN == [n |-> 0, d |-> 0]
qIsNaN(a) == a = qNaN
qFinite(a) == a.d > 0

\* -a
qNeg(a) == [n |-> -a.n, d |-> a.d]

\* a + b
qAdd(a, b) ==
    IF qIsNaN(a) \/ qIsNaN(b) THEN qNaN
    ELSE IF ~qFinite(a) THEN (IF ~qFinite(b) /\ b.n # a.n THEN qNaN ELSE a)
    ELSE IF ~qFinite(b) THEN b
    ELSE LET l == (a.d \div GCD(a.d, b.d)) * b.d
         IN Q(a.n * (l \div a.d) + b.n * (l \div b.d), l)

\* a - b
qSub(a, b) == qAdd(a, qNeg(b))

\* a * b
qMul(a, b) ==
    IF qIsNaN(a) \/ qIsNaN(b) THEN qNaN
    ELSE IF qFinite(a) /\ qFinite(b)
    THEN LET x == Q(a.n, b.d)
             y == Q(b.n, a.d)
         IN Q(x.n * y.n, x.d * y.d)
    ELSE IF a.n = 0 \/ b.n = 0 THEN qNaN
    ELSE Q(Sign(a.n) * Sign(b.n), 0)

\* a / b
qDiv(a, b) ==
    IF qIsNaN(a) \/ qIsNaN(b) THEN qNaN
    ELSE IF ~qFinite(a)
    THEN (IF ~qFinite(b) THEN qNaN ELSE Q(Sign(a.n) * Sign(b.n), 0))
    ELSE IF ~qFinite(b) THEN Whole(0)
    ELSE IF b.n = 0 THEN Q(a.n, 0)
    ELSE qMul(a, Q(b.d * Sign(b.n), Abs(b.n)))

\* a < b
qLess(a, b) ==
    IF qIsNaN(a) \/ qIsNaN(b) THEN FALSE
    ELSE IF qFinite(a) /\ qFinite(b)
    THEN LET g == GCD(a.d, b.d)
         IN a.n * (b.d \div g) < b.n * (a.d \div g)
    ELSE IF ~qFinite(a) THEN a.n < 0 /\ b # a
    ELSE b.n > 0

\* The largest k in lo..hi with k * k <= n, by bisection.
RECURSIVE RootBetween(_, _, _)
RootBetween(n, lo, hi) ==
    IF lo = hi THEN lo
    ELSE LET mid == (lo + hi + 1) \div 2
         IN IF mid * mid <= n THEN RootBetween(n, mid, hi)
            ELSE RootBetween(n, lo, mid - 1)

\* The whole part of the square root of n >= 0.
Root(n) == RootBetween(n, 0, IF n < MaxFinite THEN n ELSE MaxFinite)

\* n is the square of a whole number.
IsSquare(n) == n >= 0 /\ Root(n) * Root(n) = n

\* Math.sqrt: exact where the fraction has a root, else the roots of its
\* terms to whole numbers.
qSqrt(a) ==
    IF qIsNaN(a) \/ a.n < 0 THEN qNaN
    ELSE IF ~qFinite(a) THEN a
    ELSE Q(Root(a.n), Root(a.d))

\* a % b, for a >= 0 and b > 0.
qMod(a, b) ==
    LET q == qDiv(a, b)
    IN qSub(a, qMul(b, Whole(q.n \div q.d)))

\* Math.pow(m, 1/3), to whole numbers (exact at every cube).
Cbrt(m) == CHOOSE k \in 0..m : k * k * k <= m /\ m < (k + 1) * (k + 1) * (k + 1)

\* The canvas widths and heights in pixels: a phone and a desktop window.
Canvases == { [w |-> 360, h |-> 600], [w |-> 1000, h |-> 600] }

\* The values the sliders of ElasticCollisionScene take here: masses in kg,
\* speeds in metres per step, impact parameter in metres, restitution.
CollisionMasses == {1, 8}
CollisionSpeeds1 == {Whole(0), Whole(3), Whole(5)}
CollisionSpeeds2 == {Whole(3), Q(27, 10)}
ImpactParameters == {Whole(0), Q(2, 5)}
Restitutions == {Whole(0), Whole(1)}

\* The dt of an update, in steps.
CollisionSteps == {Whole(0), Whole(1)}

\* ElasticCollisionScene.constructor, on a canvas.
NewElasticCollision(canvas) ==
    [kind |-> "elasticCollision",
     params |-> [m1 |-> 2, m2 |-> 1, v1 |-> Whole(5), v2 |-> Whole(0),
                 b |-> Q(1, 2), e |-> Whole(1)],
     canvas |-> canvas,
     viewport |-> [scale |-> Whole(50), centerX |-> Whole(0),
                   centerY |-> Whole(0),
                   screenCenterX |-> Q(canvas.w, 2),
                   screenCenterY |-> Q(canvas.h, 2)],
     balls |-> << >>, time |-> Whole(0)]

\* ElasticCollisionScene.resetSimulation
elasticCollisionResetSimulation(s) ==
    LET p == s.params
        r1 == qMul(Q(3, 10), Whole(Cbrt(p.m1)))
        r2 == qMul(Q(3, 10), Whole(Cbrt(p.m2)))
    IN [s EXCEPT
          !.balls = << [id |-> 1, m |-> p.m1, r |-> r1,
                        pos |-> [x |-> Whole(-8), y |-> p.b],
                        vel |-> [x |-> p.v1, y |-> Whole(0)],
                        trail |-> << >>],
                       [id |-> 2, m |-> p.m2, r |-> r2,
                        pos |-> [x |-> Whole(0), y |-> Whole(0)],
                        vel |-> [x |-> qNeg(p.v2), y |-> Whole(0)],
                        trail |-> << >>] >>,
          !.time = Whole(0)]

\* Viewport.screenToWorld(sx, sy) with the vertical axis not flipped.
screenToWorldUnflipped(v, sx, sy) ==
    [x |-> qAdd(v.centerX, qDiv(qSub(sx, v.screenCenterX), v.scale)),
     y |-> qAdd(v.centerY, qDiv(qSub(sy, v.screenCenterY), v.scale))]

\* Viewport.screenToWorld(sx, sy)
screenToWorld(v, sx, sy) ==
    [x |-> qAdd(v.centerX, qDiv(qSub(sx, v.screenCenterX), v.scale)),
     y |-> qSub(v.centerY, qDiv(qSub(sy, v.screenCenterY), v.scale))]

\* One ball of the forEach in ElasticCollisionScene.update: the move, the
\* walls, the trail.
moveBall(b, dt, time, minX, maxX, minY, maxY) ==
    LET x1 == qAdd(b.pos.x, qMul(b.vel.x, dt))
        y1 == qAdd(b.pos.y, qMul(b.vel.y, dt))
        left == qLess(qSub(x1, b.r), minX)
        right == ~left /\ qLess(maxX, qAdd(x1, b.r))
        x2 == IF left THEN qAdd(minX, b.r)
              ELSE IF right THEN qSub(maxX, b.r) ELSE x1
        vx == IF left \/ right THEN qNeg(b.vel.x) ELSE b.vel.x
        bottom == qLess(qSub(y1, b.r), minY)
        top == ~bottom /\ qLess(maxY, qAdd(y1, b.r))
        y2 == IF bottom THEN qAdd(minY, b.r)
              ELSE IF top THEN qSub(maxY, b.r) ELSE y1
        vy == IF bottom \/ top THEN qNeg(b.vel.y) ELSE b.vel.y
        pushed == Append(b.trail, [x |-> x2, y |-> y2])
    IN [b EXCEPT !.pos = [x |-> x2, y |-> y2],
                 !.vel = [x |-> vx, y |-> vy],
                 !.trail = IF qLess(qMod(time, Q(1, 10)), dt)
                           THEN (IF Len(pushed) > 100 THEN Tail(pushed)
                                 ELSE pushed)
                           ELSE @]

\* The first stage of ElasticCollisionScene.update: time, and every ball
\* moved.
moveBalls(s, dt) ==
    LET time == qAdd(s.time, dt)
        topLeft == screenToWorld(s.viewport, Whole(0), Whole(0))
        bottomRight == screenToWorld(s.viewport, Whole(s.canvas.w),
                                     Whole(s.canvas.h))
    IN [s EXCEPT !.time = time,
                 !.balls = [i \in DOMAIN s.balls |->
                              moveBall(s.balls[i], dt, time,
                                       topLeft.x, bottomRight.x,
                                       bottomRight.y, topLeft.y)]]

\* What the collision stage computes of two balls: whether they overlap,
\* the normal and tangent vectors, the velocity components along them.
Contact(s) ==
    LET b1 == s.balls[1]
        b2 == s.balls[2]
        dx == qSub(b2.pos.x, b1.pos.x)
        dy == qSub(b2.pos.y, b1.pos.y)
        distSq == qAdd(qMul(dx, dx), qMul(dy, dy))
        minDist == qAdd(b1.r, b2.r)
        dist == qSqrt(distSq)
        nx == qDiv(dx, dist)
        ny == qDiv(dy, dist)
        tx == qNeg(ny)
        ty == nx
        v1n == qAdd(qMul(b1.vel.x, nx), qMul(b1.vel.y, ny))
        v1t == qAdd(qMul(b1.vel.x, tx), qMul(b1.vel.y, ty))
        v2n == qAdd(qMul(b2.vel.x, nx), qMul(b2.vel.y, ny))
        v2t == qAdd(qMul(b2.vel.x, tx), qMul(b2.vel.y, ty))
    IN [overlapping |-> qLess(distSq, qMul(minDist, minDist)),
        distSq |-> distSq, dist |-> dist, minDist |-> minDist,
        nx |-> nx, ny |-> ny, tx |-> tx, ty |-> ty,
        v1n |-> v1n, v1t |-> v1t, v2n |-> v2n, v2t |-> v2t,
        vRelN |-> qSub(v1n, v2n)]

\* The response of the collision stage with the restitution term of ball 2
\* weighted by m2 as that of ball 1 is.
RespondUnbalanced(s, c) ==
    LET m1 == Whole(s.params.m1)
        m2 == Whole(s.params.m2)
        e == s.params.e
        momentum == qAdd(qMul(m1, c.v1n), qMul(m2, c.v2n))
        v1n_new == qDiv(qSub(momentum, qMul(qMul(m2, e), c.vRelN)),
                        qAdd(m1, m2))
        v2n_new == qDiv(qAdd(momentum, qMul(qMul(m2, e), c.vRelN)),
                        qAdd(m1, m2))
        overlap == qSub(c.minDist, c.dist)
        separationX == qMul(qMul(c.nx, overlap), Q(51, 100))
        separationY == qMul(qMul(c.ny, overlap), Q(51, 100))
    IN [s EXCEPT
          !.balls[1].vel = [x |-> qAdd(qMul(v1n_new, c.nx), qMul(c.v1t, c.tx)),
                            y |-> qAdd(qMul(v1n_new, c.ny), qMul(c.v1t, c.ty))],
          !.balls[2].vel = [x |-> qAdd(qMul(v2n_new, c.nx), qMul(c.v2t, c.tx)),
                            y |-> qAdd(qMul(v2n_new, c.ny), qMul(c.v2t, c.ty))],
          !.balls[1].pos = [x |-> qSub(@.x, separationX),
                            y |-> qSub(@.y, separationY)],
          !.balls[2].pos = [x |-> qAdd(@.x, separationX),
                            y |-> qAdd(@.y, separationY)]]

\* The response of the collision stage: new normal velocities, then the
\* balls pushed apart.
Respond(s, c) ==
    LET m1 == Whole(s.params.m1)
        m2 == Whole(s.params.m2)
        e == s.params.e
        momentum == qAdd(qMul(m1, c.v1n), qMul(m2, c.v2n))
        v1n_new == qDiv(qSub(momentum, qMul(qMul(m2, e), c.vRelN)),
                        qAdd(m1, m2))
        v2n_new == qDiv(qAdd(momentum, qMul(qMul(m1, e), c.vRelN)),
                        qAdd(m1, m2))
        overlap == qSub(c.minDist, c.dist)
        separationX == qMul(qMul(c.nx, overlap), Q(51, 100))
        separationY == qMul(qMul(c.ny, overlap), Q(51, 100))
    IN [s EXCEPT
          !.balls[1].vel = [x |-> qAdd(qMul(v1n_new, c.nx), qMul(c.v1t, c.tx)),
                            y |-> qAdd(qMul(v1n_new, c.ny), qMul(c.v1t, c.ty))],
          !.balls[2].vel = [x |-> qAdd(qMul(v2n_new, c.nx), qMul(c.v2t, c.tx)),
                            y |-> qAdd(qMul(v2n_new, c.ny), qMul(c.v2t, c.ty))],
          !.balls[1].pos = [x |-> qSub(@.x, separationX),
                            y |-> qSub(@.y, separationY)],
          !.balls[2].pos = [x |-> qAdd(@.x, separationX),
                            y |-> qAdd(@.y, separationY)]]

\* The collision stage responding to every overlap.
collideWheneverOverlapping(s) ==
    LET c == Contact(s)
    IN IF c.overlapping THEN Respond(s, c) ELSE s

\* The second stage of ElasticCollisionScene.update.
collide(s) ==
    LET c == Contact(s)
    IN IF c.overlapping /\ qLess(Whole(0), c.vRelN) THEN Respond(s, c) ELSE s

\* ElasticCollisionScene.update(dt, t)
elasticCollisionUpdate(s, dt, t) == collide(moveBalls(s, dt))

\* The square root the collision stage of update(dt, t) would take is exact.
RootExact(s, dt) ==
    LET c == Contact(moveBalls(s, dt))
    IN c.overlapping => IsSquare(c.distSq.n) /\ IsSquare(c.distSq.d)

\* The coordinates of the balls are fractions the update is stepped from.
Steppable(s) ==
    \A i \in DOMAIN s.balls :
        \A q \in {s.balls[i].pos.x, s.balls[i].pos.y,
                  s.balls[i].vel.x, s.balls[i].vel.y} : q.d <= MaxDenominator

ElasticCollisionUpdate ==
    /\ nsteps < MaxSteps
    /\ Steppable(state)
    /\ \E dt \in CollisionSteps :
         /\ RootExact(state, dt)
         /\ state' = elasticCollisionUpdate(state, dt, simTime)
         /\ last' = [method |-> "update", dt |-> dt,
                     moved |-> moveBalls(state, dt).balls,
                     contact |-> Contact(moveBalls(state, dt))]
    /\ nsteps' = nsteps + 1
    /\ UNCHANGED simTime
    /\ UNCHANGED engineVars

\* The m1, m2, v1, v2 or b slider is moved: resetSimulation, resetTime.
ElasticCollisionReset ==
    /\ \E m1 \in CollisionMasses, m2 \in CollisionMasses,
          v1 \in CollisionSpeeds1, v2 \in CollisionSpeeds2,
          b \in ImpactParameters :
         state' = elasticCollisionResetSimulation(
                      [state EXCEPT !.params.m1 = m1, !.params.m2 = m2,
                                    !.params.v1 = v1, !.params.v2 = v2,
                                    !.params.b = b])
    /\ last' = [method |-> "resetSimulation"]
    /\ UNCHANGED << simTime, nsteps >>
    /\ UNCHANGED engineVars

\* The e slider is moved: the scene goes on with the new restitution.
ElasticCollisionRestitution ==
    /\ \E e \in Restitutions : state' = [state EXCEPT !.params.e = e]
    /\ last' = [method |-> "e"]
    /\ UNCHANGED << simTime, nsteps >>
    /\ UNCHANGED engineVars

\* The scene after setup, on each canvas.
ElasticCollisionInit ==
    /\ EngineInit
    /\ state \in { elasticCollisionResetSimulation(NewElasticCollision(c)) :
                      c \in Canvases }
    /\ simTime = 0
    /\ nsteps = 0
    /\ last = [method |-> "none"]

ElasticCollisionNext ==
    \/ ElasticCollisionUpdate
    \/ ElasticCollisionReset
    \/ ElasticCollisionRestitution

ElasticCollisionSpec == ElasticCollisionInit /\ [][ElasticCollisionNext]_vars

\* ------------------------------------------------------------ Viewport

\* Surface sizes in pixels, viewport scales (pixels per metre: the scenes set
\* 4, 50 and 100, and setScale takes any number), centres, and the points the
\* maps are applied to.
Surfaces == { [w |-> 360, h |-> 600], [w |-> 1000, h |-> 600],
              [w |-> 801, h |-> 0] }
Scales == {Whole(0), Q(1, 2), Whole(4), Whole(50), Whole(100)}
Centres == { [x |-> Whole(0), y |-> Whole(0)],
             [x |-> Whole(100), y |-> Whole(50)],
             [x |-> Whole(0), y |-> Q(-3, 2)] }
Points == { [x |-> Whole(0), y |-> Whole(0)],
            [x |-> Q(-7, 3), y |-> Whole(5)],
            [x |-> Whole(360), y |-> Q(1201, 2)] }

\* Viewport.constructor, on a canvas.
NewViewport(canvas) ==
    [width |-> Whole(canvas.w), height |-> Whole(canvas.h),
     scale |-> Whole(100), centerX |-> Whole(0), centerY |-> Whole(0),
     screenCenterX |-> Q(canvas.w, 2), screenCenterY |-> Q(canvas.h, 2)]

\* Viewport.resize(width, height) that also centres the view on the origin.
viewportResizeRecentres(v, width, height) ==
    [v EXCEPT !.width = width, !.height = height,
              !.screenCenterX = qDiv(width, Whole(2)),
              !.screenCenterY = qDiv(height, Whole(2)),
              !.centerX = Whole(0), !.centerY = Whole(0)]

\* Viewport.resize(width, height)
viewportResize(v, width, height) ==
    [v EXCEPT !.width = width, !.height = height,
              !.screenCenterX = qDiv(width, Whole(2)),
              !.screenCenterY = qDiv(height, Whole(2))]

\* Viewport.setCenter(x, y)
setCenter(v, x, y) == [v EXCEPT !.centerX = x, !.centerY = y]

\* Viewport.setScale(pixelsPerMeter)
setScale(v, pixelsPerMeter) == [v EXCEPT !.scale = pixelsPerMeter]

\* Viewport.worldToScreen(x, y)
worldToScreen(v, x, y) ==
    [x |-> qAdd(v.screenCenterX, qMul(qSub(x, v.centerX), v.scale)),
     y |-> qSub(v.screenCenterY, qMul(qSub(y, v.centerY), v.scale))]

\* Scene.resize(width, height): the viewport is resized.
ViewportResize ==
    /\ \E surface \in Surfaces :
         state' = viewportResize(state, Whole(surface.w), Whole(surface.h))
    /\ last' = [method |-> "resize", before |-> state]
    /\ UNCHANGED << simTime, nsteps >>
    /\ UNCHANGED engineVars

ViewportSetCenter ==
    /\ \E c \in Centres : state' = setCenter(state, c.x, c.y)
    /\ last' = [method |-> "setCenter", before |-> state]
    /\ UNCHANGED << simTime, nsteps >>
    /\ UNCHANGED engineVars

ViewportSetScale ==
    /\ \E pixelsPerMeter \in Scales : state' = setScale(state, pixelsPerMeter)
    /\ last' = [method |-> "setScale", before |-> state]
    /\ UNCHANGED << simTime, nsteps >>
    /\ UNCHANGED engineVars

\* A point is mapped to the screen.
ViewportWorldToScreen ==
    /\ \E p \in Points :
         last' = [method |-> "worldToScreen", point |-> p,
                  result |-> worldToScreen(state, p.x, p.y)]
    /\ UNCHANGED << state, simTime, nsteps >>
    /\ UNCHANGED engineVars

\* A point of the screen is mapped to the world.
ViewportScreenToWorld ==
    /\ \E p \in Points :
         last' = [method |-> "screenToWorld", point |-> p,
                  result |-> screenToWorld(state, p.x, p.y)]
    /\ UNCHANGED << state, simTime, nsteps >>
    /\ UNCHANGED engineVars

ViewportInit ==
    /\ EngineInit
    /\ state \in { NewViewport(c) : c \in Canvases }
    /\ simTime = 0
    /\ nsteps = 0
    /\ last = [method |-> "none"]

ViewportNext ==
    \/ ViewportResize
    \/ ViewportSetCenter
    \/ ViewportSetScale
    \/ ViewportWorldToScreen
    \/ ViewportScreenToWorld

ViewportSpec == ViewportInit /\ [][ViewportNext]_vars

\* ------------------------------------------------------- RealTimeChart

\* The capacities of the ring buffer: 3600 in the program, a few slots here.
Capacities == {1, 2, 3}

\* The values of a point's one series.
ChartValues == {Fin(-2), Fin(1), NaN}

\* buffer's empty slot
Null == [t |-> -1, values |-> << >>]

\* RealTimeChart.constructor; maxAbs is held in tenths.
NewRealTimeChart(capacity) ==
    [kind |-> "chart", capacity |-> capacity,
     buffer |-> [i \in 0..(capacity - 1) |-> Null],
     head |-> 0, count |-> 0, maxAbs |-> 1]

\* The larger of maxAbs and the values of a point that are numbers.
RECURSIVE maxAbsWith(_, _, _)
maxAbsWith(maxAbs, values, i) ==
    IF i > Len(values) THEN maxAbs
    ELSE LET v == values[i]
             m == IF v.fin /\ 10 * Abs(v.v) > maxAbs
                  THEN 10 * Abs(v.v) ELSE maxAbs
         IN maxAbsWith(m, values, i + 1)

\* RealTimeChart.clear with the count left as it was.
clearKeepsCount(c) == [c EXCEPT !.head = 0, !.maxAbs = 1]

\* RealTimeChart.clear
clear(c) == [c EXCEPT !.head = 0, !.count = 0, !.maxAbs = 1]

\* RealTimeChart.push(t, ...values)
push(c, t, values) ==
    [c EXCEPT !.buffer[c.head] = [t |-> t, values |-> values],
              !.head = (c.head + 1) % c.capacity,
              !.count = IF c.count < c.capacity THEN c.count + 1 ELSE c.count,
              !.maxAbs = maxAbsWith(c.maxAbs, values, 1)]

\* The items the loop of RealTimeChart.draw reads, in its order.
draw(c) ==
    [i \in 1..c.count |->
        c.buffer[(c.head - c.count + (i - 1) + c.capacity) % c.capacity]]

\* A point is pushed at the time nsteps + 1; the history keeps the points
\* pushed since the last clear.
ChartPush ==
    /\ nsteps < MaxPushes
    /\ \E v \in ChartValues :
         LET c == push(state, nsteps + 1, << v >>)
         IN /\ state' = c
            /\ last' = [last EXCEPT
                          !.method = "push",
                          !.pushed = Append(@, [t |-> nsteps + 1,
                                                values |-> << v >>]),
                          !.drawn = draw(c)]
    /\ nsteps' = nsteps + 1
    /\ UNCHANGED simTime
    /\ UNCHANGED engineVars

ChartClear ==
    /\ last.method = "push"
    /\ LET c == clear(state)
       IN /\ state' = c
          /\ last' = [method |-> "clear", pushed |-> << >>,
                      cleared |-> TRUE, drawn |-> draw(c)]
    /\ UNCHANGED << simTime, nsteps >>
    /\ UNCHANGED engineVars

ChartInit ==
    /\ EngineInit
    /\ state \in { NewRealTimeChart(n) : n \in Capacities }
    /\ simTime = 0
    /\ nsteps = 0
    /\ last = [method |-> "none", pushed |-> << >>, cleared |-> FALSE,
               drawn |-> << >>]

ChartNext ==
    \/ ChartPush
    \/ ChartClear

ChartSpec == ChartInit /\ [][ChartNext]_vars

\* ------------------------------------------------------------------ claims

\* Wall time the engine has measured since the last resetTime, or would
\* measure if a frame ran now.
Measured == delivered + (IF running THEN now - lastFrameTime ELSE 0)

\* The operations that execute Engine.resetTime.
ResetOperation == RouteScene \/ ResetButton \/ ChangeLaunch \/ RecordStart

\* The scene's physical state is the one resetSimulation produces.
InInitialState(s) ==
    /\ s.pos = resetSimulation(s).pos
    /\ s.vel = resetSimulation(s).vel
    /\ s.time = 0
    /\ ~s.isLanded

\* C1: physicsTime is fixedDeltaTime times the number of loop steps completed
\* since the last resetTime, whatever the interleaving of start, pause,
\* resetTime, scene loads and frames.
C1_PhysicsTimeIsStepMultiple == physicsTime = fixedDeltaTime * stepsDone

\* C1 witness: the engine is paused after three completed steps.
C1_PausedAfterSteps == ~running /\ stepsDone >= 3 /\ physicsTime > 0

\* C2 as stated: every update call, by any caller, passes dt = fixedDeltaTime.
C2_EveryUpdateGetsFixedStep ==
    \A i \in DOMAIN calls : calls[i].dt = fixedDeltaTime

\* C2 amended: the i-th update of a run of Engine.loop passes fixedDeltaTime
\* and the physicsTime reached after the i-1 updates before it, and
\* physicsTime ends fixedDeltaTime past every update that returned; the reset
\* button's update passes (0, 0), with physicsTime = 0.
C2_UpdateArguments ==
    [][ /\ \A i \in DOMAIN calls' :
             IF calls'[i].by = "loop"
             THEN /\ calls'[i].dt = fixedDeltaTime
                  /\ calls'[i].t = physicsTime + (i - 1) * fixedDeltaTime
             ELSE /\ calls'[i].dt = 0
                  /\ calls'[i].t = 0
                  /\ physicsTime' = 0
        /\ Loop =>
             physicsTime' = physicsTime + fixedDeltaTime *
                 Cardinality({ i \in DOMAIN calls' : ~calls'[i].threw })
      ]_vars

\* C2 witness: a run of the loop made two updates, the first at a time > 0.
C2_TwoUpdatesInOneTick ==
    Len(calls) >= 2 /\ calls[1].by = "loop" /\ calls[1].t > 0

\* C3 as stated: with a scene loaded and the accumulator drained, the steps
\* completed are floor(T / fixedDeltaTime) of the wall time T delivered,
\* however T was split into callbacks.
C3_StepsIndependentOfSplit ==
    (currentScene # NoScene /\ 0 <= accumulatedTime
                            /\ accumulatedTime < fixedDeltaTime)
        => stepsDone = delivered \div fixedDeltaTime

\* C3 amended: as long as no callback's delta exceeded 0.25 s, physicsTime
\* plus the accumulator is the wall time delivered, so the steps completed
\* are floor(T / fixedDeltaTime) once the accumulator is in [0, fixedDeltaTime).
C3_StepsFloorWhenUnclamped ==
    ~clamped =>
        /\ physicsTime + accumulatedTime = delivered
        /\ (0 <= accumulatedTime /\ accumulatedTime < fixedDeltaTime)
              => stepsDone = delivered \div fixedDeltaTime

\* C3 witness: six units delivered in more than one callback, three steps.
C3_SplitDelivery ==
    /\ currentScene # NoScene /\ ~clamped
    /\ delivered = 3 * fixedDeltaTime /\ stepsDone = 3

\* C4 as stated: the delta a run of Engine.loop adds to the accumulator is
\* timestamp - lastFrameTime clamped to [0, 0.25 s]: never negative, never
\* more than 0.25 s.
C4_FrameDeltaClamped ==
    [][ (Loop /\ running) =>
          LET added == (accumulatedTime' + physicsTime')
                       - (accumulatedTime + physicsTime)
          IN 0 <= added /\ added <= maxFrameDelta
      ]_vars

\* C5 as stated: when a tick has drained the accumulator and renders,
\* 0 <= accumulatedTime < fixedDeltaTime, so alpha is in [0, 1).
C5_AlphaInUnitInterval ==
    alpha # << >> =>
        /\ 0 <= accumulatedTime /\ accumulatedTime < fixedDeltaTime
        /\ 0 <= alpha[1] /\ alpha[1] < fixedDeltaTime

\* C6: while the engine is paused, the passing of wall time, a frame, a
\* callback scheduled before the pause, and the start that resumes leave
\* physicsTime, the accumulator and the scene as they are and call no update.
C6_PauseKeepsPhysicsTime ==
    [][ (~running /\ (AdvanceTime \/ NextFrame \/ Loop \/ Toggle \/ RouteUnknown))
          => /\ physicsTime' = physicsTime
             /\ accumulatedTime' = accumulatedTime
             /\ currentScene' = currentScene
             /\ calls' = << >>
      ]_vars

\* C6 witness: the engine is paused with physics time on the clock and a
\* callback scheduled before the pause is due.
C6_StaleCallbackDue == ~running /\ due > 0 /\ physicsTime > 0

\* C7: the wall time the engine measures grows only by the wall time that
\* passes while it is running; start measures from the moment it is called.
C7_PausedTimeNotMeasured ==
    [][ \/ Measured' <= Measured + (IF running THEN now' - now ELSE 0)
        \/ Measured' = 0
      ]_vars

\* C7 witness: start has resumed an engine with steps on its clock (it wrote
\* lastFrameTime after the last frame) more than 0.25 s after that frame.
C7_ResumedAfterLongPause ==
    /\ running /\ stepsDone >= 1
    /\ lastFrameTime = now /\ lastFrameTime > frameTime
    /\ now - frameTime > maxFrameDelta

\* C8 as stated: after an update of the loop has thrown, no run of the loop
\* calls update again unless a reset or a scene load came first.
C8_FailedStepNeverRetried ==
    [][ failed => \A i \in DOMAIN calls' : calls'[i].by # "loop" ]_vars

\* C9 as stated: when an operation that executes resetTime completes,
\* physicsTime = 0, accumulatedTime = 0 and the scene is in its initial state.
C9_ResetRestoresInitialState ==
    [][ ResetOperation =>
          /\ physicsTime' = 0
          /\ accumulatedTime' = 0
          /\ currentScene' # NoScene => InInitialState(currentScene')
      ]_vars

\* C10 as stated: one run of Engine.loop makes at most 0.25 / fixedDeltaTime
\* = 15 update calls.
C10_AtMostFifteenUpdates == Len(calls) <= maxFrameDelta \div fixedDeltaTime

\* C11 as stated: on every tick the scene's render blends with the alpha the
\* clock computed for that tick.
C11_RenderGetsClockAlpha == alpha # << >> => rendered = alpha

\* The rates the caller's function returns at the input of the last step are
\* all finite numbers.
FiniteRatesAtInput ==
    IF last.method = "semiImplicitEuler"
    THEN accelerationFunc(last.f, last.input.pos, last.input.vel, last.t).fin
    ELSE LET rates == derivatives(last.f, last.input, last.t)
         IN \A key \in DOMAIN rates : rates[key].fin

\* The input state of the last step holds finite numbers only.
FiniteInput == \A key \in DOMAIN last.input : last.input[key].fin

\* C12: the state euler and rk4 return has exactly the field names of the
\* input state, for every derivative function, over consecutive steps.
C12_FieldSetStable ==
    last.method \in {"euler", "rk4"} => DOMAIN state = DOMAIN last.input

\* C12 witness: rk4 has stepped a state with a field no rate has, with a
\* derivative function whose rates carry an extra field, as a second step.
C12_ExtraAndMissingFields ==
    /\ last.method = "rk4" /\ last.f = "extra" /\ nsteps = 2
    /\ "mass" \in DOMAIN last.input

\* C13: semiImplicitEuler returns vel' = vel + a(pos, vel, t) * dt, with a
\* taken at the old position and velocity, and pos' = pos + vel' * dt.
C13_VelocityFirst ==
    last.method = "semiImplicitEuler" =>
        LET a == accelerationFunc(last.f, last.input.pos, last.input.vel,
                                  last.t)
        IN /\ state.vel = fAdd(last.input.vel, fMul(a, Fin(last.dt)))
           /\ state.pos = fAdd(last.input.pos, fMul(state.vel, Fin(last.dt)))

\* C13 witness: a step in which the new velocity differs from the old one, so
\* that the old velocity would have given another position.
C13_VelocityChanged ==
    /\ last.method = "semiImplicitEuler" /\ last.dt > 0
    /\ state.vel.fin /\ state.vel # last.input.vel
    /\ state.pos # fAdd(last.input.pos, fMul(last.input.vel, Fin(last.dt)))

\* C14: per step the caller's function is called once by euler and by
\* semiImplicitEuler, at the input and t, and four times by rk4, at t,
\* t + dt/2, t + dt/2 and t + dt, each later call on the input advanced by
\* the rates the call before it returned.
C14_FunctionCalls ==
    /\ last.method \in {"euler", "semiImplicitEuler"} =>
          last.calls = << Called(last.input, last.t) >>
    /\ last.method = "rk4" =>
          LET c == last.calls
              k(i) == derivatives(last.f, c[i].state, c[i].t)
          IN /\ Len(c) = 4
             /\ c[1] = Called(last.input, last.t)
             /\ c[2] = Called(HalfStage(last.input, k(1), last.dt),
                              last.t + last.dt \div 2)
             /\ c[3] = Called(HalfStage(last.input, k(2), last.dt),
                              last.t + last.dt \div 2)
             /\ c[4] = Called(Stage(last.input, k(3), Fin(last.dt)),
                              last.t + last.dt)

\* C14 witness: an rk4 step of the oscillator whose four calls were made on
\* four different states.
C14_FourDistinctStages ==
    /\ last.method = "rk4" /\ last.f = "oscillator" /\ last.dt > 0
    /\ Cardinality({ last.calls[i].state : i \in 1..4 }) = 4

C16_FourChainedSubSteps ==
    last.method = "update" =>
        LET c == last.calls
            h == last.dt \div steps
            out(i) == rk4(c[i].state, c[i].t, c[i].dt, "doublePendulum").state
        IN /\ Len(c) = steps
           /\ steps * h = last.dt
           /\ \A i \in 1..Len(c) : c[i].dt = h /\ c[i].t = last.t + (i - 1) * h
           /\ c[1].state = last.input
           /\ \A i \in 2..Len(c) : c[i].state = out(i - 1)
           /\ state.phys = out(Len(c))

\* C16 witness: an update with dt > 0 whose four sub-steps started from four
\* different finite states.
C16_FourDistinctSubSteps ==
    /\ last.method = "update" /\ last.dt > 0 /\ last.t > 0
    /\ Cardinality({ last.calls[i].state : i \in 1..steps }) = steps
    /\ \A i \in 1..steps : last.calls[i].state.omega1.fin

\* C17: in the simple pendulum, the spring oscillator and free fall, after any
\* sequence of resetSimulation and update calls the previous state and the
\* current state are distinct objects; after an update the previous state
\* holds the values the current state had before it, and after a reset the
\* values the current state was reset to.
C17_PreviousStateNotAliased ==
    /\ state.prevPhys # state.phys
    /\ state.prevPhys \in DOMAIN state.heap
    /\ last.method = "update" => state.heap[state.prevPhys] = last.input
    /\ last.method = "resetSimulation" =>
          state.heap[state.prevPhys] = Phys(state)

\* C17 witness: an update has advanced the current state of the spring
\* oscillator, in place, away from the stored previous state.
C17_CurrentAdvanced ==
    /\ state.kind = "springOscillator" /\ last.method = "update"
    /\ nsteps = 2
    /\ Phys(state) # state.heap[state.prevPhys]

\* C18: when the planet-star distance r is 0 in an update, the gravitational
\* force is 0 and the acceleration, velocity and position of the planet hold
\* finite numbers after it.
C18_NoSingularityAtZeroDistance ==
    (last.method = "update" /\ last.gravitation.r = Fin(0)) =>
        /\ last.gravitation.F = Fin(0)
        /\ last.gravitation.ax.fin /\ last.gravitation.ay.fin
        /\ state.planet.vel.x.fin /\ state.planet.vel.y.fin
        /\ state.planet.pos.x.fin /\ state.planet.pos.y.fin

\* C19: a landed projectile rests on the ground (y = 0, velocity 0) with the
\* latch set, an update that ends with y <= 0 has landed it, and from a landed
\* projectile every operation other than resetSimulation leaves position,
\* velocity and latch as they are.
C19_LandedStaysAtRest ==
    /\ [](state.isLanded =>
             state.pos.y = 0 /\ state.vel = [x |-> 0, y |-> 0])
    /\ [](state.pos.y <= 0 /\ last.method = "update" => state.isLanded)
    /\ [][(state.isLanded /\ last'.method # "resetSimulation") =>
             /\ state'.isLanded
             /\ state'.pos = state.pos
             /\ state'.vel = state.vel]_vars

\* C19 witness: an update was applied to a projectile that had landed after a
\* flight (away from its launch point) under drag.
C19_UpdateAfterLanding ==
    /\ last.method = "update" /\ last.wasLanded /\ last.dt > 0
    /\ state.isLanded /\ state.pos.x # 0 /\ state.params.k > 0

\* The component of a ball's velocity along the tangent of the last contact.
Tangential(i) ==
    qAdd(qMul(state.balls[i].vel.x, last.contact.tx),
         qMul(state.balls[i].vel.y, last.contact.ty))

\* C20: unless the balls overlap with v1n - v2n > 0, the collision stage of
\* an update leaves the positions and velocities of both balls as the first
\* stage left them; and whenever they overlap, each ball's velocity component
\* along the tangent is after the update what it was before the stage.
C20_ResponseOnlyWhileApproaching ==
    last.method = "update" =>
        /\ ~(last.contact.overlapping /\ qLess(Whole(0), last.contact.vRelN))
              => \A i \in {1, 2} :
                    /\ state.balls[i].pos = last.moved[i].pos
                    /\ state.balls[i].vel = last.moved[i].vel
        /\ last.contact.overlapping =>
              /\ Tangential(1) = last.contact.v1t
              /\ Tangential(2) = last.contact.v2t

\* C20 witness: an update found the balls overlapping on an oblique contact
\* while separating, ball 1 with a tangential velocity.
C20_OverlapWhileSeparating ==
    /\ last.method = "update" /\ last.contact.overlapping
    /\ qLess(last.contact.vRelN, Whole(0))
    /\ last.contact.nx.n # 0 /\ last.contact.ny.n # 0
    /\ last.contact.v1t.n # 0

\* The total momentum of balls along x and y, as getMonitorData sums it.
Momentum(balls) ==
    [x |-> qAdd(qMul(Whole(balls[1].m), balls[1].vel.x),
                qMul(Whole(balls[2].m), balls[2].vel.x)),
     y |-> qAdd(qMul(Whole(balls[1].m), balls[1].vel.y),
                qMul(Whole(balls[2].m), balls[2].vel.y))]

\* The total kinetic energy of balls, as getMonitorData sums it.
KineticEnergy(balls) ==
    LET Ek(b) == qMul(qMul(Q(1, 2), Whole(b.m)),
                      qAdd(qMul(b.vel.x, b.vel.x), qMul(b.vel.y, b.vel.y)))
    IN qAdd(Ek(balls[1]), Ek(balls[2]))

\* The last operation was an update whose collision stage responded.
Responded ==
    /\ last.method = "update"
    /\ last.contact.overlapping
    /\ qLess(Whole(0), last.contact.vRelN)

\* C21: a collision response with e = 1 or e = 0 leaves the total momentum
\* as it was, in both components; with e = 1 it leaves the total kinetic
\* energy as it was, and with e = 0 it lowers it.
C21_MomentumAndEnergy ==
    (Responded /\ state.params.e \in {Whole(0), Whole(1)}) =>
        /\ Momentum(state.balls) = Momentum(last.moved)
        /\ state.params.e = Whole(1) =>
              KineticEnergy(state.balls) = KineticEnergy(last.moved)
        /\ state.params.e = Whole(0) =>
              qLess(KineticEnergy(state.balls), KineticEnergy(last.moved))

\* C21 witness: an elastic response on an oblique contact of two balls of
\* different masses, both moving, has changed their velocities.
C21_ObliqueElasticResponse ==
    /\ Responded /\ state.params.e = Whole(1)
    /\ state.params.m1 # state.params.m2
    /\ last.contact.nx.n # 0 /\ last.contact.ny.n # 0
    /\ last.moved[1].vel.x.n # 0 /\ last.moved[2].vel.x.n # 0
    /\ state.balls[1].vel # last.moved[1].vel

\* C22: with a scale > 0, screenToWorld takes the result of worldToScreen
\* back to the point and worldToScreen takes the result of screenToWorld back
\* to the point; and a point one unit higher in the world is mapped scale
\* pixels lower on the screen.
C22_MapsAreInverses ==
    qLess(Whole(0), state.scale) =>
        /\ last.method = "worldToScreen" =>
              /\ screenToWorld(state, last.result.x, last.result.y)
                    = last.point
              /\ worldToScreen(state, last.point.x,
                               qAdd(last.point.y, Whole(1))).y
                    = qSub(last.result.y, state.scale)
        /\ last.method = "screenToWorld" =>
              worldToScreen(state, last.result.x, last.result.y) = last.point

\* C22 witness: a point off the centre was mapped to the screen by a viewport
\* with a fractional scale, a centre off the origin and an odd width.
C22_MappedOffCentre ==
    /\ last.method = "worldToScreen"
    /\ state.scale = Q(1, 2)
    /\ state.centerY = Q(-3, 2)
    /\ state.screenCenterX = Q(801, 2)
    /\ last.point.x = Q(-7, 3)
    /\ last.result # last.point

\* C23: a resize leaves scale, centerX and centerY as they were, and sets
\* width, height and the screen centre (half the width, half the height).
C23_ResizeKeepsFraming ==
    last.method = "resize" =>
        /\ state.scale = last.before.scale
        /\ state.centerX = last.before.centerX
        /\ state.centerY = last.before.centerY
        /\ state.screenCenterX = qDiv(state.width, Whole(2))
        /\ state.screenCenterY = qDiv(state.height, Whole(2))

\* C23 witness: a viewport framed off the origin at scale 4 was resized to
\* another surface.
C23_ResizedFramedView ==
    /\ last.method = "resize"
    /\ state.width # last.before.width
    /\ state.screenCenterX # last.before.screenCenterX
    /\ state.scale = Whole(4)
    /\ state.centerX = Whole(100)

\* C24: on an undamped spring stepped with semiImplicitEuler the energy stays
\* between a sixteenth of and sixteen times the initial energy at every one of
\* the steps; stepped with euler the energy after a step is greater than the
\* energy before it, as long as the state holds finite numbers.
C24_EnergyBandAndGrowth ==
    LET E == Energy(state.f, state)
    IN /\ state.method = "semiImplicitEuler" =>
             /\ E.fin
             /\ E.v <= 16 * last.initial.v
             /\ last.initial.v <= 16 * E.v
       /\ (last.method = "euler" /\ state.pos.fin /\ state.vel.fin) =>
             (E = Infinity \/ (E.fin /\ E.v > last.before.v))

\* C24 witness: the spring has been stepped EnergySteps times with
\* semiImplicitEuler and its energy differs from the initial energy.
C24_ThousandSteps ==
    /\ state.method = "semiImplicitEuler" /\ nsteps >= 1000
    /\ Energy(state.f, state) # last.initial

\* C25: at most one loop callback is scheduled with the host (queued for the
\* next frame or due in the running one), whatever the interleaving of start,
\* pause, toggle and frames.
C25_AtMostOneCallback == pending + due <= 1

\* C26: whenever running is true a loop callback is scheduled, so another
\* tick follows.
C26_RunningHasCallback == running => pending + due >= 1

\* C27: no update of the projectile throws, whatever the controls were set
\* to before it.
C27_UpdateNeverThrows == last.method = "update" => ~last.threw

\* C29: when the reset button is pressed while the clock is paused, the
\* zero-length update it issues completes and leaves position, velocity and
\* the landed flag as resetSimulation set them.
C29_PausedResetShowsResetState ==
    (Len(calls) = 1 /\ calls[1].by = "resetBtn") =>
        /\ ~calls[1].threw
        /\ currentScene.pos = resetSimulation(currentScene).pos
        /\ currentScene.vel = resetSimulation(currentScene).vel
        /\ ~currentScene.isLanded

\* C28: a resize of the surface leaves the ball's velocity and the time the
\* ball has fallen as they were, and the time the ball has fallen since the
\* last reset is the time of the clock.
C28_ResizeKeepsPhysicalState ==
    state.kind = "freeFall" =>
        /\ last.method = "resize" =>
               /\ Phys(state).vy = last.input.vy
               /\ Phys(state).t = last.input.t
        /\ Phys(state).t = Fin(simTime)

\* The last n items of a sequence.
LastOf(seq, n) == SubSeq(seq, Len(seq) - n + 1, Len(seq))

\* C30: after any pushes and clears of a chart, head is a slot of the buffer,
\* count is the number of points pushed since the last clear or the capacity
\* if that is less, and the items draw reads are the last count points pushed,
\* in the order they were pushed.
C30_RingBufferHoldsLatest ==
    state.kind = "chart" =>
        /\ state.head \in 0..(state.capacity - 1)
        /\ state.count = IF Len(last.pushed) < state.capacity
                         THEN Len(last.pushed) ELSE state.capacity
        /\ draw(state) = LastOf(last.pushed, state.count)
        /\ last.drawn = draw(state)

\* A chart that was cleared and has since been given more points than it
\* holds.
C30_WrappedAfterClear ==
    /\ state.kind = "chart"
    /\ last.method = "push"
    /\ last.cleared
    /\ state.capacity >= 2
    /\ Len(last.pushed) > state.capacity
====
